---------------------------- MODULE Spec2Model ----------------------------
(***************************************************************************)
(* A model of logfeller's rotating file writer: the schedule model          *)
(* (whenrotate.go), the rotation clock File.calcRotationTimes, the          *)
(* rotate-or-append state machine of File.Write / File.Rotate / File.Close   *)
(* and the background trimmer File.trim.                                     *)
(*                                                                         *)
(* Instants are whole seconds since 1970-01-01T00:00:00Z.  The zero          *)
(* time.Time (year 1) is the distinguished value ZeroTime, which is before   *)
(* every other instant, as in Go.                                           *)
(***************************************************************************)
EXTENDS Integers, Sequences, FiniteSets, TLC

VARIABLES
    When,                  \* File.When, canonical: "h", "d", "m", "y"
    RotationSchedule,      \* File.RotationSchedule, the offsets as configured
    timeRotationSchedule,  \* File.timeRotationSchedule (sorted by init)
    Backups,               \* File.Backups, the retention count
    inited,                \* initOnce has run (trimCh made, worker started)
    now,                   \* what nowFunc() returns
    dir,                   \* the directory: file name -> [content, mtime]
    file,                  \* File.file: TRUE when a handle to the active file is held
    prevRotateAt,          \* File.prevRotateAt
    rotateAt,              \* File.rotateAt
    trimCh,                \* number of requests buffered in trimCh (capacity 1)
    pc,                    \* where the caller holding mu stands
    cur,                   \* the call in progress
    wpc,                   \* where the trim worker stands
    wList,                 \* the well-formed backups the running trim listed
    wRemove,               \* the backups the running trim has still to remove
    hist,                  \* record of the last completed call (history variable)
    trimHist,              \* record of the last completed trim (history variable)
    used,                  \* how many Write / Rotate / Close calls were made
    res                    \* result of the last rotation-clock query

vars == <<When, RotationSchedule, timeRotationSchedule, Backups, inited, now, dir, file,
          prevRotateAt, rotateAt, trimCh, pc, cur, wpc, wList, wRemove,
          hist, trimHist, used, res>>

-----------------------------------------------------------------------------
(* Calendar arithmetic of Go's time package, proleptic Gregorian, UTC.      *)
(* Intermediate values are passed on as operator parameters.                *)

\* time.Time{}: the zero instant, before every instant the model uses.
ZeroTime == -1

secondsPerMinute == 60
secondsPerHour == 3600
secondsPerDay == 86400

\* Days in the first yoe years of a 400-year era.
YoeDays(yoe) == yoe * 365 + yoe \div 4 - yoe \div 100

DaysFromEra(era, yy, doy) == era * 146097 + YoeDays(yy - era * 400) + doy - 719468

DaysFromShifted(yy, mp, d) == DaysFromEra(yy \div 400, yy, (153 * mp + 2) \div 5 + d - 1)

\* Days from 1970-01-01 to the civil date y-m-d (m in 1..12, d any integer).
DaysFromCivil(y, m, d) ==
    DaysFromShifted(IF m <= 2 THEN y - 1 ELSE y, IF m > 2 THEN m - 3 ELSE m + 9, d)

CivilYMD(y0, m, d) == <<y0 + (IF m <= 2 THEN 1 ELSE 0), m, d>>

CivilFromMp(y0, doy, mp) ==
    CivilYMD(y0, IF mp < 10 THEN mp + 3 ELSE mp - 9, doy - (153 * mp + 2) \div 5 + 1)

CivilFromDoy(y0, doy) == CivilFromMp(y0, doy, (5 * doy + 2) \div 153)

CivilFromYoe(era, doe, yoe) == CivilFromDoy(yoe + era * 400, doe - YoeDays(yoe))

CivilFromDoe(era, doe) ==
    CivilFromYoe(era, doe,
        (doe - doe \div 1460 + doe \div 36524 - doe \div 146096) \div 365)

\* The civil date <<y, m, d>> of day number z (days since 1970-01-01).
CivilFromDays(z) == CivilFromDoe((z + 719468) \div 146097, (z + 719468) % 146097)

DateNormal(y, m, d, h, mi, s) ==
    DaysFromCivil(y, m, 1) * secondsPerDay + (d - 1) * secondsPerDay
      + h * secondsPerHour + mi * secondsPerMinute + s

\* time.Date(y, mo, d, h, mi, s, 0, loc): the month is normalised into the
\* year, and a day past the end of the month runs into the next month.
Date(y, mo, d, h, mi, s) ==
    DateNormal(y + (mo - 1) \div 12, ((mo - 1) % 12) + 1, d, h, mi, s)

CivilRec(c, sod) ==
    [year   |-> c[1], month |-> c[2], day |-> c[3],
     hour   |-> sod \div secondsPerHour,
     minute |-> (sod % secondsPerHour) \div secondsPerMinute,
     second |-> sod % secondsPerMinute]

\* The fields of an instant: t.Date(), t.Hour(), t.Minute(), t.Second().
Civil(t) == CivilRec(CivilFromDays(t \div secondsPerDay), t % secondsPerDay)

AddDateCivil(c, years, months, days) ==
    Date(c.year + years, c.month + months, c.day + days, c.hour, c.minute, c.second)

\* t.AddDate(years, months, days)
AddDate(t, years, months, days) == AddDateCivil(Civil(t), years, months, days)

\* a.After(b)
After(a, b) == a > b

-----------------------------------------------------------------------------
(* whenrotate.go                                                            *)

Hour == "h"
Day == "d"
Month == "m"
Year == "y"

\* A timeSchedule value.
Sch(mo, d, h, mi, s) ==
    [month |-> mo, day |-> d, hour |-> h, minute |-> mi, second |-> s]

\* A unit left as it is spelled.
lowerNot(r) == r

\* WhenRotate.lower: strings.ToLower on the spellings the model configures.
lower(r) ==
    CASE r = "H"    -> "h"
      [] r = "D"    -> "d"
      [] r = "M"    -> "m"
      [] r = "Y"    -> "y"
      [] r = "HOUR" -> "hour"
      [] OTHER      -> r

\* WhenRotate.valid
valid(r) == r \in {Hour, Day, Month, Year}

\* WhenRotate.parseTimeSchedule on an offset given by the numbers of its
\* digit groups: the groups the unit's pattern has are range-checked and
\* stored, the other fields stay zero.
parseTimeSchedule(r, off) ==
    [ok  |-> /\ valid(r)
             /\ r = Year => off.month \in 1..12
             /\ r \in {Month, Year} => off.day \in 1..31
             /\ r \in {Day, Month, Year} => off.hour \in 0..23
             /\ off.minute \in 0..59
             /\ off.second \in 0..59,
     sch |-> Sch(IF r = Year THEN off.month ELSE 0,
                 IF r \in {Month, Year} THEN off.day ELSE 0,
                 IF r \in {Day, Month, Year} THEN off.hour ELSE 0,
                 off.minute, off.second)]

\* An offset string is the sequence of its characters.  \d of the patterns
\* of lines 34-39 matches the ten ASCII digits.
Digits == <<"0", "1", "2", "3", "4", "5", "6", "7", "8", "9">>

IsDigit(ch) == \E i \in 1..10 : Digits[i] = ch

DigitValue(ch) == (CHOOSE i \in 1..10 : Digits[i] = ch) - 1

\* One \d of a pattern.
D == "\\d"

\* hourOffsetRegex, dayOffsetRegex, monthOffsetRegex, yearOffsetRegex
\* between ^ and $ (lines 34-39).
offsetRegex(r) ==
    CASE r = Hour  -> <<D, D, ":", D, D>>
      [] r = Day   -> <<D, D, D, D, ":", D, D>>
      [] r = Month -> <<D, D, " ", D, D, D, D, ":", D, D>>
      [] r = Year  -> <<D, D, D, D, " ", D, D, D, D, ":", D, D>>

\* offsetRegex.SubexpNames() after the entry of the whole match.
SubexpNames(r) ==
    CASE r = Hour  -> <<"minutes", "seconds">>
      [] r = Day   -> <<"hours", "minutes", "seconds">>
      [] r = Month -> <<"days", "hours", "minutes", "seconds">>
      [] r = Year  -> <<"months", "days", "hours", "minutes", "seconds">>

\* Where the k-th group of a pattern starts: at its (2k-1)-th \d.
GroupStart(re, k) ==
    CHOOSE i \in 1..Len(re) :
        /\ re[i] = D
        /\ Cardinality({j \in 1..(i - 1) : re[j] = D}) = 2 * (k - 1)

\* The pattern matches the whole string: ^ and $ anchor it, every \d takes
\* one digit and every other character stands for itself.
Matches(re, str) ==
    /\ Len(str) = Len(re)
    /\ \A i \in 1..Len(re) : IF re[i] = D THEN IsDigit(str[i]) ELSE str[i] = re[i]

\* strconv.Atoi on a group of two digits.
Atoi(str, i) == 10 * DigitValue(str[i]) + DigitValue(str[i + 1])

\* offsetRegex.FindStringSubmatch(offsetStr): the numbers of the groups,
\* or no match.
FindStringSubmatch(re, str) ==
    IF Matches(re, str)
    THEN [k \in 1..(Cardinality({i \in 1..Len(re) : re[i] = D}) \div 2) |->
              Atoi(str, GroupStart(re, k))]
    ELSE <<>>

\* Minutes and seconds stored in each other's field.
FieldOfSwapped(name) ==
    CASE name = "months"  -> "month"
      [] name = "days"    -> "day"
      [] name = "hours"   -> "hour"
      [] name = "minutes" -> "second"
      [] name = "seconds" -> "minute"

\* The field of timeSchedule a group is stored in.
FieldOf(name) ==
    CASE name = "months"  -> "month"
      [] name = "days"    -> "day"
      [] name = "hours"   -> "hour"
      [] name = "minutes" -> "minute"
      [] name = "seconds" -> "second"

\* Range tests that hold the day against 30.
OutOfRangeDay30(name, n) ==
    CASE name = "months"  -> n < 1 \/ n > 12
      [] name = "days"    -> n < 1 \/ n > 30
      [] name = "hours"   -> n < 0 \/ n > 23
      [] name = "minutes" -> n < 0 \/ n > 59
      [] name = "seconds" -> n < 0 \/ n > 59

\* The range tests of lines 134-159.
OutOfRange(name, n) ==
    CASE name = "months"  -> n < 1 \/ n > 12
      [] name = "days"    -> n < 1 \/ n > 31
      [] name = "hours"   -> n < 0 \/ n > 23
      [] name = "minutes" -> n < 0 \/ n > 59
      [] name = "seconds" -> n < 0 \/ n > 59

\* What parseTimeSchedule returns: an offset, or the zero offset and an
\* error (err names the unit, the format or the group that was refused).
Ok(off) == [ok |-> TRUE, err |-> "", sch |-> off]

Err(err) == [ok |-> FALSE, err |-> err, sch |-> Sch(0, 0, 0, 0, 0)]

\* The loop of lines 130-162 from the k-th group on: the first group out
\* of range ends it.
RECURSIVE parseGroups(_, _, _, _)
parseGroups(names, match, k, off) ==
    IF k > Len(names)
    THEN Ok(off)
    ELSE IF OutOfRange(names[k], match[k])
    THEN Err(names[k])
    ELSE parseGroups(names, match, k + 1,
                     [off EXCEPT ![FieldOf(names[k])] = match[k]])

parseMatch(names, match) ==
    IF Len(match) # Len(names)
    THEN Err("format")
    ELSE parseGroups(names, match, 1, Sch(0, 0, 0, 0, 0))

\* WhenRotate.parseTimeSchedule(offsetStr) on the characters of offsetStr.
parseOffsetStr(r, offsetStr) ==
    IF ~valid(r)
    THEN Err("interval")
    ELSE parseMatch(SubexpNames(r), FindStringSubmatch(offsetRegex(r), offsetStr))

\* Two digits for a number below 100.
Pad2(n, j) == Digits[(IF j = 0 THEN n \div 10 ELSE n % 10) + 1]

\* The group of a pattern that position i lies in.
GroupOf(re, i) == (Cardinality({j \in 1..i : re[j] = D}) + 1) \div 2

\* An offset written in the format of its unit, as validFormatMsg gives it
\* (lines 122-127): MM:SS, HHMM:SS, DD HHMM:SS, mmDD HHMM:SS.
FormatAs(re, names, sch) ==
    [i \in 1..Len(re) |->
        IF re[i] = D
        THEN Pad2(sch[FieldOf(names[GroupOf(re, i)])],
                  i - GroupStart(re, GroupOf(re, i)))
        ELSE re[i]]

formatOffset(r, sch) == FormatAs(offsetRegex(r), SubexpNames(r), sch)

\* daysIn(m, year): time.Date(year, m+1, 0, ...).Day()
daysIn(m, year) == CivilFromDays(DaysFromCivil(year + m \div 12, (m % 12) + 1, 0))[3]

intervalCivil(r, c) ==
    CASE r = Hour  -> secondsPerHour
      [] r = Day   -> secondsPerDay
      [] r = Month -> daysIn(c.month, c.year) * secondsPerDay
      [] r = Year  -> 365 * secondsPerDay
      [] OTHER     -> secondsPerDay

\* WhenRotate.interval, in seconds
interval(r, t) == intervalCivil(r, Civil(t))

\* A default that is the zero offset for every unit.
baseRotateTimeZero(r) == Sch(0, 0, 0, 0, 0)

\* WhenRotate.baseRotateTime
baseRotateTime(r) ==
    CASE r \in {Hour, Day} -> Sch(0, 0, 0, 0, 0)
      [] r = Month         -> Sch(0, 1, 0, 0, 0)
      [] OTHER             -> Sch(1, 1, 0, 0, 0)

nearestCivil(r, c, currentTime, sch) ==
    CASE r = Hour  -> Date(c.year, c.month, c.day, c.hour, sch.minute, sch.second)
      [] r = Day   -> Date(c.year, c.month, c.day, sch.hour, sch.minute, sch.second)
      [] r = Month -> Date(c.year, c.month, sch.day, sch.hour, sch.minute, sch.second)
      [] r = Year  -> Date(c.year, sch.month, sch.day, sch.hour, sch.minute, sch.second)
      [] OTHER     -> currentTime

\* WhenRotate.nearestScheduledTime
nearestScheduledTime(r, currentTime, sch) ==
    nearestCivil(r, Civil(currentTime), currentTime, sch)

\* An addTime that leaves the time where it is, as for a unit that is none
\* of the four.
addTimeNone(r, t, n) == t

\* WhenRotate.addTime
addTime(r, t, n) ==
    CASE r = Hour  -> t + n * secondsPerHour
      [] r = Day   -> AddDate(t, 0, 0, n)
      [] r = Month -> AddDate(t, 0, n, 0)
      [] r = Year  -> AddDate(t, n, 0, 0)
      [] OTHER     -> t

\* timeSchedule.approxDuration, in seconds (a month is 30 days)
approxDuration(s) ==
    s.month * 30 * secondsPerDay + s.day * secondsPerDay
      + s.hour * secondsPerHour + s.minute * secondsPerMinute + s.second

\* An order that sorts descending.
LessDescending(a, b) == approxDuration(a) > approxDuration(b)

\* timeSchedules.Less on two elements
Less(a, b) == approxDuration(a) < approxDuration(b)

-----------------------------------------------------------------------------
(* File.calcRotationTimes                                                   *)

\* File.time: UseLocal is false, every instant is already UTC.
time(t) == t

\* The result of calcRotationTimes; via names the return statement taken.
Window(prev, next, via) == [prev |-> prev, next |-> next, via |-> via]

\* Line 388: t.Add(-r.interval(t)), t.Add(r.interval(t))
fallback(t, d) == Window(t - d, t + d, "fallback")

\* Lines 383-388, after the loop.
calcEnd(r, t, next, last) ==
    IF After(last, t) THEN Window(next, last, "wrap") ELSE fallback(t, interval(r, t))

\* The loop of lines 371-382 from index i on; `next` holds what the
\* previous iteration left and `last` is lastOffsetToCheck.
RECURSIVE calcLoop(_, _, _, _, _, _)

\* One iteration that goes on only while n is strictly before t.
calcStepBefore(r, schedules, t, i, next, last, n) ==
    IF n < t
    THEN calcLoop(r, schedules, t, i + 1, n, IF i = 1 THEN addTime(r, n, 1) ELSE last)
    ELSE Window(next, n, "loop")

\* One iteration, n being nearestScheduledTime(t, sch).
calcStep(r, schedules, t, i, next, last, n) ==
    IF ~After(n, t)
    THEN calcLoop(r, schedules, t, i + 1, n, IF i = 1 THEN addTime(r, n, 1) ELSE last)
    ELSE Window(next, n, "loop")

calcLoop(r, schedules, t, i, next, last) ==
    IF i > Len(schedules)
    THEN calcEnd(r, t, next, last)
    ELSE calcStep(r, schedules, t, i, next, last,
                  nearestScheduledTime(r, t, schedules[i]))

\* Lines 366-370, firstOffsetToCheck being computed.
calcFrom(r, schedules, t, firstOffsetToCheck) ==
    IF After(firstOffsetToCheck, t)
    THEN Window(ZeroTime, firstOffsetToCheck, "early")
    ELSE calcLoop(r, schedules, t, 1, firstOffsetToCheck, ZeroTime)

\* calcRotationTimes(t) for When = r and timeRotationSchedule = schedules.
calcRotationTimes(r, schedules, t) ==
    calcFrom(r, schedules, time(t),
             addTime(r, nearestScheduledTime(r, time(t), schedules[Len(schedules)]), -1))

-----------------------------------------------------------------------------
(* The directory.  A file name is [base, mid, ext]: the active file is       *)
(* fileBase ++ ext, a backup is fileBase ++ <timestamp> ++ ext.  The          *)
(* timestamp text is the sequence of the numeric fields the layout           *)
(* ".2006-01-02T1504-05" prints.  dir maps each existing name to its         *)
(* content (a sequence of items) and its modification time.                  *)

fileBase == "foo"
ext == ".log"

\* f.Filename
Filename == [base |-> fileBase, mid |-> <<>>, ext |-> ext]

FormatCivil(c) == <<c.year, c.month, c.day, c.hour, c.minute, c.second>>

\* t.Format(defaultBackupTimeFormat): year, month, day, hour, minute, second
Format(t) == IF t = ZeroTime THEN <<1, 1, 1, 0, 0, 0>> ELSE FormatCivil(Civil(t))

\* time.Parse(defaultBackupTimeFormat, mid): fails unless the text has the
\* six fields of the layout, each in range (the day within its month).
Parse(mid) ==
    IF Len(mid) # 6
    THEN [ok |-> FALSE, t |-> ZeroTime]
    ELSE IF mid = <<1, 1, 1, 0, 0, 0>>
    THEN [ok |-> TRUE, t |-> ZeroTime]
    ELSE IF /\ mid[2] \in 1..12
            /\ mid[3] >= 1
            /\ mid[3] <= daysIn(mid[2], mid[1])
            /\ mid[4] \in 0..23
            /\ mid[5] \in 0..59
            /\ mid[6] \in 0..59
    THEN [ok |-> TRUE, t |-> Date(mid[1], mid[2], mid[3], mid[4], mid[5], mid[6])]
    ELSE [ok |-> FALSE, t |-> ZeroTime]

\* File.filenameWithTimestamp
filenameWithTimestamp(t) == [base |-> fileBase, mid |-> Format(t), ext |-> ext]

\* os.Stat(name): does the file exist
Exists(d, name) == name \in DOMAIN d

\* info.Size() of an existing file
Size(d, name) == Len(d[name].content)

\* os.Rename(old, new)
Rename(d, old, new) ==
    [n \in (DOMAIN d \ {old}) \cup {new} |-> IF n = new THEN d[old] ELSE d[n]]

\* os.Remove(name)
Remove(d, name) == [n \in DOMAIN d \ {name} |-> d[n]]

\* os.OpenFile(name, O_WRONLY|O_CREATE|O_APPEND): creates the file, empty,
\* when it does not exist.
Create(d, name, t) ==
    IF name \in DOMAIN d
    THEN d
    ELSE [n \in DOMAIN d \cup {name} |->
            IF n = name THEN [content |-> <<>>, mtime |-> t] ELSE d[n]]

\* An append that truncates the file first.
Append2Truncate(d, name, bytes, t) ==
    [d EXCEPT ![name] = [content |-> bytes, mtime |-> t]]

\* Appending bytes to an existing file.
Append2(d, name, bytes, t) ==
    [d EXCEPT ![name] = [content |-> d[name].content \o bytes, mtime |-> t]]

\* A match on the prefix and the suffix alone, the timestamp not parsed.
IsBackupNameLoose(name) ==
    /\ name.base = fileBase
    /\ name.ext = ext

\* The directory entries trim takes for backups of this file (lines 429-445):
\* prefix fileBase, suffix ext, and a middle that parses as a timestamp.
IsBackupName(name) ==
    /\ name.base = fileBase
    /\ name.ext = ext
    /\ Parse(name.mid).ok

BackupNames(d) == {n \in DOMAIN d : IsBackupName(n)}

-----------------------------------------------------------------------------
(* The writer.  A call runs under f.mu, so one call is in progress at a      *)
(* time.  The steps below work on a record s of the fields a call reads and  *)
(* writes: dir, file, prev (prevRotateAt), next (rotateAt), and what the      *)
(* call has done so far: rots (how many times rotate ran), arch (the backups *)
(* it changed), open (the window openExistingOrNew computed), fails (how     *)
(* many times rotateOpen returned an error of the file system).              *)

NoOpen == [done |-> FALSE, existed |-> FALSE, prev |-> ZeroTime, next |-> ZeroTime]

\* One payload written by Write number wid while prevRotateAt was `under`.
Payload(wid, under) == [id |-> wid, under |-> under]

\* File.updateRotateAt
updateRotateAt(s, w) == [s EXCEPT !.prev = w.prev, !.next = w.next]

\* A check that also fires at the rotation instant itself.
shouldRotateAtOrAfter(s, t) == time(t) >= s.next

\* File.shouldRotate
shouldRotate(s, t) == After(time(t), s.next)

\* File.close
close(s) == [s EXCEPT !.file = FALSE, !.held = IF s.file THEN @ - 1 ELSE @]

\* An archive step that moves the active file onto dst whatever is there.
ArchiveOver(d, dst, t) ==
    IF Exists(d, Filename) /\ Size(d, Filename) > 0
    THEN Rename(d, Filename, dst)
    ELSE d

\* An archive step without the size test of line 309.
ArchiveAlways(d, dst, t) ==
    IF Exists(d, Filename)
    THEN IF ~Exists(d, dst)
         THEN Rename(d, Filename, dst)
         ELSE Remove(Append2(d, dst, d[Filename].content, t), Filename)
    ELSE d

\* rotateOpen lines 309-348: the active file, when it exists and is not
\* empty, goes to dst: renamed when dst is free, else appended to dst and
\* removed.
Archive(d, dst, t) ==
    IF Exists(d, Filename) /\ Size(d, Filename) > 0
    THEN IF ~Exists(d, dst)
         THEN Rename(d, Filename, dst)
         ELSE Remove(Append2(d, dst, d[Filename].content, t), Filename)
    ELSE d

\* A rotateOpen that names the backup after the current time.
rotateOpenNamedNow(s, t) ==
    [s EXCEPT !.dir = Create(Archive(s.dir, filenameWithTimestamp(time(t)), t),
                             Filename, t),
              !.file = TRUE, !.held = @ + 1]

\* File.rotateOpen at time t (the original file already closed).
rotateOpen(s, t) ==
    [s EXCEPT !.dir = Create(Archive(s.dir, filenameWithTimestamp(time(s.prev)), t),
                             Filename, t),
              !.file = TRUE, !.held = @ + 1]

\* What a step changed among the files other than the active one.
Changed(before, after, stored) ==
    {[name |-> n,
      existed |-> n \in DOMAIN before,
      before |-> IF n \in DOMAIN before THEN before[n].content ELSE <<>>,
      after |-> after[n].content,
      stored |-> stored] :
        n \in {m \in DOMAIN after \ {Filename} :
                 m \notin DOMAIN before \/ before[m] # after[m]}}

\* The record of a rotation that took s to a.
Rotated(s, a) ==
    [a EXCEPT !.rots = @ + 1, !.arch = @ \cup Changed(s.dir, a.dir, s.prev)]

\* A rotate that runs once the window of the current time is stored.
rotateBeginUpdated(s, t) ==
    Rotated(updateRotateAt(s, calcRotationTimes(When, timeRotationSchedule, t)),
            rotateOpen(close(updateRotateAt(s, calcRotationTimes(When, timeRotationSchedule, t))), t))

\* File.rotate up to its triggerTrim (lines 231-236).
rotateBegin(s, t) == Rotated(s, rotateOpen(close(s), t))

\* A checkAndRotate that leaves the window as it was.
rotateEndKeep(r, schedules, s, t) == s

\* checkAndRotate line 296, once rotate has returned.
rotateEnd(r, schedules, s, t) == updateRotateAt(s, calcRotationTimes(r, schedules, t))

\* File.checkAndRotate as a whole, the send of triggerTrim not waiting.
checkAndRotate(r, schedules, s, t) ==
    IF shouldRotate(s, t) THEN rotateEnd(r, schedules, rotateBegin(s, t), t) ELSE s

\* f.file.Write(p): the bytes go to the end of the active file.
fileWrite(s, t, wid) ==
    [s EXCEPT !.dir = Append2(s.dir, Filename, <<Payload(wid, s.prev)>>, t)]

\* The outcome of a step: the fields, where the call stands, and which
\* path it is on.
Step(s, at, from) == [s |-> s, pc |-> at, from |-> from, err |-> FALSE]

\* The outcome of a step that makes the call return an error.
StepErr(s, from) == [s |-> s, pc |-> "idle", from |-> from, err |-> TRUE]

\* File.rotate when rotateOpen fails (lines 231-235): the handle is closed,
\* the directory is as it was, the error goes to the caller of rotate.
rotateFail(s) == [close(s) EXCEPT !.fails = @ + 1]

\* Write from its checkAndRotate on (lines 195-198): either rotate, which
\* stops at triggerTrim, or append and return.
WriteCheck(s, t, wid) ==
    IF shouldRotate(s, t)
    THEN Step(rotateBegin(s, t), "rotate_trim", "write")
    ELSE Step(fileWrite(s, t, wid), "idle", "write")

Opened(s, existed) ==
    [s EXCEPT !.open = [done |-> TRUE, existed |-> existed,
                        prev |-> s.prev, next |-> s.next]]

\* Write from its checkAndRotate on when the rotateOpen of a due rotation
\* fails: line 296 stores the window of now all the same, and Write
\* returns the error (lines 195-197).
WriteCheckFail(r, schedules, s, t, wid) ==
    IF shouldRotate(s, t)
    THEN StepErr(rotateEnd(r, schedules, rotateFail(s), t), "write")
    ELSE WriteCheck(s, t, wid)

\* An open of a new file that leaves the window unset.
openNewUnset(s, t, wid, w) ==
    WriteCheck(Opened(rotateOpen(s, t), FALSE), t, wid)

\* openExistingOrNew lines 256-260: no file, the window is that of now.
openNew(s, t, wid, w) ==
    WriteCheck(Opened(rotateOpen(updateRotateAt(s, w), t), FALSE), t, wid)

\* The same when rotateOpen fails: Write returns the error (lines 190-192).
openNewFail(s, t, wid, w) ==
    StepErr(Opened([updateRotateAt(s, w) EXCEPT !.fails = @ + 1], FALSE), "open")

\* openExistingOrNew lines 265-278, the window of the file's time stored.
openChecked(s, t, wid) ==
    IF shouldRotate(s, t)
    THEN Step(rotateBegin(s, t), "rotate_trim", "open")
    ELSE WriteCheck([s EXCEPT !.file = TRUE, !.held = @ + 1], t, wid)

\* openExistingOrNew lines 265-278 when the rotateOpen of the missed
\* rotation fails: checkAndRotate has stored the window of now (line 296)
\* and returns the error, which line 267 does not return; the file is
\* opened for appending (line 271) and Write goes on.
openCheckedFail(r, schedules, s, t, wid) ==
    IF shouldRotate(s, t)
    THEN WriteCheck([rotateEnd(r, schedules, rotateFail(s), t)
                         EXCEPT !.file = TRUE, !.held = @ + 1],
                    t, wid)
    ELSE openChecked(s, t, wid)

\* An open that takes the window of the current time for an existing file.
openExistingNow(r, schedules, s, t, wid, modTime) ==
    openChecked(Opened(updateRotateAt(s, calcRotationTimes(r, schedules, t)), TRUE),
                t, wid)

\* openExistingOrNew lines 264-265: the window is that of fileInfo.ModTime().
openExisting(r, schedules, s, t, wid, modTime) ==
    openChecked(Opened(updateRotateAt(s, calcRotationTimes(r, schedules, modTime)), TRUE),
                t, wid)

\* openExistingOrNew after its triggerTrim (lines 255-278), and then the
\* rest of Write.
openExistingOrNew(r, schedules, s, t, wid) ==
    IF ~Exists(s.dir, Filename)
    THEN openNew(s, t, wid, calcRotationTimes(r, schedules, t))
    ELSE openExisting(r, schedules, s, t, wid, s.dir[Filename].mtime)

\* openExistingOrNew with a rotateOpen that fails.
openExistingOrNewFail(r, schedules, s, t, wid) ==
    IF ~Exists(s.dir, Filename)
    THEN openNewFail(s, t, wid, calcRotationTimes(r, schedules, t))
    ELSE openCheckedFail(r, schedules,
                         Opened(updateRotateAt(s, calcRotationTimes(r, schedules,
                                                  s.dir[Filename].mtime)), TRUE),
                         t, wid)

\* A Rotate() that stores the window of the current time when it ends.
afterRotateRecompute(r, schedules, s, t, c) ==
    CASE c.from = "force" -> Step(rotateEnd(r, schedules, s, t), "idle", "force")
      [] c.from = "open"  -> WriteCheck(rotateEnd(r, schedules, s, t), t, c.wid)
      [] OTHER            -> Step(fileWrite(rotateEnd(r, schedules, s, t), t, c.wid),
                                  "idle", "write")

\* What follows the triggerTrim of rotate: the end of Rotate (from "force"),
\* or line 296 of checkAndRotate and the rest of Write.
afterRotate(r, schedules, s, t, c) ==
    CASE c.from = "force" -> Step(s, "idle", "force")
      [] c.from = "open"  -> WriteCheck(rotateEnd(r, schedules, s, t), t, c.wid)
      [] OTHER            -> Step(fileWrite(rotateEnd(r, schedules, s, t), t, c.wid),
                                  "idle", "write")

-----------------------------------------------------------------------------
(* File.trim                                                                *)

\* The listed backups in the order sort.SliceStable leaves them: newest
\* parsed timestamp first.
RECURSIVE SortNewestFirst(_)

\* The backup with the oldest parsed timestamp.
Oldest(names) ==
    CHOOSE n \in names : \A m \in names : ~After(Parse(n.mid).t, Parse(m.mid).t)

Newest(names) ==
    CHOOSE n \in names : \A m \in names : ~After(Parse(m.mid).t, Parse(n.mid).t)

SortedFrom(names, top) == <<top>> \o SortNewestFirst(names \ {top})

SortNewestFirst(names) ==
    IF names = {} THEN <<>> ELSE SortedFrom(names, Newest(names))

\* backupFIs[f.Backups:] when there are more than f.Backups, else nothing.
toRemove(backupFIs, keep) ==
    IF Len(backupFIs) > keep
    THEN SubSeq(backupFIs, keep + 1, Len(backupFIs))
    ELSE <<>>

-----------------------------------------------------------------------------
(* Bounds and the configurations explored.                                   *)

\* Calls of Write, Rotate and Close in a run.
MaxCalls == 4

\* Day with four offsets (the schedule of the test
\* rotate_daily_with_multiple_schedules), Hour with no offsets given, and
\* Month on day 31.
RawSchedule(r) ==
    CASE r = Day   -> <<Sch(0, 0, 1, 0, 0), Sch(0, 0, 8, 30, 0),
                        Sch(0, 0, 14, 0, 0), Sch(0, 0, 19, 0, 0)>>
      [] r = Hour  -> <<>>
      [] r = Month -> <<Sch(0, 31, 0, 0, 0)>>

\* A configuration: the unit and the offsets.
Config(r, raw) == [When |-> r, RotationSchedule |-> raw]

\* The configurations of the writer's runs.
Configs == {Config(r, RawSchedule(r)) : r \in {Hour, Day, Month}}

\* Configurations that fail init: a unit that is none of the four (the
\* test When_invalid_error) and an offset out of range (hour 25).
BadConfigs == {Config("hour", <<>>), Config(Day, <<Sch(0, 0, 25, 0, 0)>>)}

\* The instants the clock visits, in order.  The first is also the
\* modification time of the files that exist at the start.
Grid(r) ==
    CASE r = Day   -> <<Date(2021, 5, 9, 16, 0, 0), Date(2021, 5, 10, 0, 0, 0),
                        Date(2021, 5, 10, 1, 0, 0), Date(2021, 5, 10, 1, 5, 0)>>
      [] r = Hour  -> <<Date(2020, 8, 9, 9, 50, 0), Date(2020, 8, 9, 10, 0, 0),
                        Date(2020, 8, 9, 10, 20, 0), Date(2020, 8, 9, 11, 10, 0)>>
      [] r = Month -> <<Date(2021, 1, 15, 0, 0, 0), Date(2021, 1, 31, 0, 0, 0),
                        Date(2021, 2, 1, 0, 0, 0), Date(2021, 2, 5, 0, 0, 0)>>
      [] OTHER     -> <<Date(2020, 8, 9, 9, 50, 0), Date(2020, 8, 9, 10, 0, 0),
                        Date(2020, 8, 9, 10, 20, 0), Date(2020, 8, 9, 11, 10, 0)>>

\* The arrangements sort.Sort may leave: ascending by approxDuration.
IsSorted(q) == \A i \in 1..(Len(q) - 1) : ~Less(q[i + 1], q[i])

\* The orders of the distinct offsets, each taken once.
ArrangementsDistinct(q) ==
    {p \in [1..Cardinality({q[i] : i \in 1..Len(q)}) -> {q[i] : i \in 1..Len(q)}] :
        \A i, j \in DOMAIN p : p[i] = p[j] => i = j}

\* The orders of the offsets of q, each as often as q has it.
Arrangements(q) ==
    {p \in [1..Len(q) -> {q[i] : i \in 1..Len(q)}] :
        \A x \in {q[i] : i \in 1..Len(q)} :
            Cardinality({i \in 1..Len(q) : p[i] = x})
              = Cardinality({i \in 1..Len(q) : q[i] = x})}

\* init() lines 119-131: the unit is valid and every offset parses.
ConfigOk(r, raw) ==
    /\ valid(r)
    /\ \A i \in 1..Len(raw) : parseTimeSchedule(r, raw[i]).ok

\* init() lines 125-133: the offsets parsed, in the order given.
Parsed(r, raw) == [i \in 1..Len(raw) |-> parseTimeSchedule(r, raw[i]).sch]

\* init() lines 124-137: the parsed offsets, or the unit's default, sorted.
\* With a configuration that fails init the schedule is never set.
InitSchedules(r, raw) ==
    IF ~ConfigOk(r, raw)
    THEN {<<>>}
    ELSE {p \in Arrangements(IF Len(raw) = 0 THEN <<baseRotateTime(r)>>
                                             ELSE Parsed(r, raw)) :
            IsSorted(p)}

\* Files in the directory at the start: content written before the start
\* carries an id below 1.
Item(id) == [id |-> id, under |-> ZeroTime]

File0(id, t) == [content |-> <<Item(id)>>, mtime |-> t]

\* Same prefix and extension, timestamp in another layout (no seconds).
OtherFormat == [base |-> fileBase, mid |-> <<2021, 5, 11, 0, 0>>, ext |-> ext]

\* Another log file.
OtherFile == [base |-> "bar", mid |-> <<>>, ext |-> ext]

\* Two backups of earlier periods.
OldBackup(r, t0, n) == filenameWithTimestamp(addTime(r, t0, 0 - n))

Files(t0, oldA, oldB) ==
    [n \in {Filename, oldA, oldB, OtherFormat, OtherFile} |->
        CASE n = Filename    -> File0(0, t0)
          [] n = oldA        -> File0(0 - 1, t0)
          [] n = oldB        -> File0(0 - 2, t0)
          [] n = OtherFormat -> File0(0 - 3, t0)
          [] n = OtherFile   -> File0(0 - 4, t0)]

Pick(names, f) == [n \in names |-> f[n]]

DirsOf(all) ==
    { Pick({}, all), Pick({Filename}, all), all }

InitDirs(r, t0) == DirsOf(Files(t0, OldBackup(r, t0, 3), OldBackup(r, t0, 2)))

-----------------------------------------------------------------------------
(* State machine                                                            *)

NoCall == [op |-> "none", wid |-> 0, from |-> "none", t |-> ZeroTime,
           err |-> FALSE, preOpen |-> FALSE, prePrev |-> ZeroTime,
           preNext |-> ZeroTime, preExists |-> FALSE, preActive |-> <<>>,
           preModTime |-> ZeroTime,
           rots |-> 0, arch |-> {}, open |-> NoOpen, fails |-> 0,
           postActive |-> <<>>, postPrev |-> ZeroTime, postNext |-> ZeroTime,
           postOpen |-> FALSE]

NoTrim == [done |-> FALSE, keep |-> 0, listed |-> {}, removed |-> {}, errs |-> <<>>,
           after |-> {}]

\* Calls made so far (w, r, c), errors the file system may still answer
\* a rotateOpen with (f) and an os.Remove of trim with (d), how often
\* the body of init has run (v), and the handles to the active file that
\* the process has opened and not closed (h).
NoUse == [w |-> 0, r |-> 0, c |-> 0, f |-> 0, d |-> 0, v |-> 0, h |-> 0]

Calls(u) == u.w + u.r + u.c

NoRes == [asked |-> FALSE, t |-> ZeroTime, prev |-> ZeroTime, next |-> ZeroTime,
          via |-> "none"]

InitOf(configs, u) ==
    /\ \E cfg \in configs :
          /\ When = cfg.When
          /\ RotationSchedule = cfg.RotationSchedule
    /\ timeRotationSchedule \in InitSchedules(When, RotationSchedule)
    /\ Backups \in {-1, 0, 1}
    /\ inited \in BOOLEAN
    /\ now = Grid(When)[1]
    /\ dir \in InitDirs(When, Grid(When)[1])
    /\ file = FALSE
    /\ prevRotateAt = ZeroTime
    /\ rotateAt = ZeroTime
    /\ trimCh = 0
    /\ pc = "idle"
    /\ cur = NoCall
    /\ wpc = "idle"
    /\ wList = {}
    /\ wRemove = <<>>
    /\ hist = NoCall
    /\ trimHist = NoTrim
    /\ used = [u EXCEPT !.v = IF inited THEN 1 ELSE 0]
    /\ res = NoRes

InitWith(u) == InitOf(Configs, u)

\* A file system that answers every call.
Init == InitWith(NoUse)

ActiveContent(d) == IF Exists(d, Filename) THEN d[Filename].content ELSE <<>>

ActiveModTime(d) == IF Exists(d, Filename) THEN d[Filename].mtime ELSE ZeroTime

\* The record of a call that starts now.
Begin(op, wid) ==
    [NoCall EXCEPT !.op = op, !.wid = wid, !.t = now, !.preOpen = file,
                   !.prePrev = prevRotateAt, !.preNext = rotateAt,
                   !.preExists = Exists(dir, Filename),
                   !.preActive = ActiveContent(dir),
                   !.preModTime = ActiveModTime(dir)]

\* The fields of the writer as a call's steps see them.
S(c) == [dir |-> dir, file |-> file, prev |-> prevRotateAt, next |-> rotateAt,
         rots |-> c.rots, arch |-> c.arch, open |-> c.open, fails |-> c.fails,
         held |-> used.h]

\* The call c after a step with outcome x.
After1(x, c) ==
    [c EXCEPT !.from = x.from, !.rots = x.s.rots, !.arch = x.s.arch,
              !.open = x.s.open, !.fails = x.s.fails]

Returned(x, c) ==
    [c EXCEPT !.err = x.err, !.postActive = ActiveContent(x.s.dir),
              !.postPrev = x.s.prev, !.postNext = x.s.next,
              !.postOpen = x.s.file]

\* The outcome x of a step of call c becomes the state: the call goes on
\* (it stands before a triggerTrim) or returns.
Apply(x, c) ==
    /\ dir' = x.s.dir
    /\ file' = x.s.file
    /\ prevRotateAt' = x.s.prev
    /\ rotateAt' = x.s.next
    /\ pc' = x.pc
    /\ cur' = IF x.pc = "idle" THEN NoCall ELSE After1(x, c)
    /\ hist' = IF x.pc = "idle" THEN Returned(x, After1(x, c)) ELSE hist

\* Whether the file system fails the rotateOpen of a step, should the step
\* call it: it can as long as it has errors left.
FaultChoice(left) == IF left > 0 THEN BOOLEAN ELSE {FALSE}

\* The step with outcome x of call c is taken, u the calls counted; a step
\* with a failing file system is one in which rotateOpen was called.
Took(x, c, u, fail) ==
    /\ fail => x.s.fails > c.fails
    /\ Apply(x, c)
    /\ used' = [u EXCEPT !.f = @ - (x.s.fails - c.fails), !.h = x.s.held]

\* A Once that runs its function on every Do.
onceDoAgain(done) == TRUE

\* f.initOnce.Do (line 103): the body of init runs if it has not run yet.
onceDo(done) == ~done

\* f.init() as Write and triggerTrim call it: the calls counted in u and
\* one more run of the body of init if Do runs it.
Inits(u, done) == [u EXCEPT !.v = @ + (IF onceDo(done) THEN 1 ELSE 0)]

\* init() lines 115-119: no unit stands for Day, a unit is lowered.
initWhen(r) == IF r = "" THEN Day ELSE lower(r)

\* f.When after f.init(): set by the body of init if Do runs it.
WhenAfterInit(r, done) == IF onceDo(done) THEN initWhen(r) ELSE r

\* f.initErr once init has run (lines 119-131).
initErr == inited /\ ~ConfigOk(When, RotationSchedule)

\* Write line 185-187: with a configuration that failed init the call
\* returns f.initErr before it takes f.mu.
WriteOutcome(c, fail) ==
    IF ~ConfigOk(initWhen(When), RotationSchedule)
    THEN StepErr(S(c), "init")
    ELSE IF ~file
    THEN Step(S(c), "open_trim", "open")
    ELSE IF fail
    THEN WriteCheckFail(When, timeRotationSchedule, S(c), now, c.wid)
    ELSE WriteCheck(S(c), now, c.wid)

WriteFrom(c, fail) ==
    Took(WriteOutcome(c, fail), c, Inits([used EXCEPT !.w = @ + 1], inited), fail)

\* File.Write(p): init, lock, and on to the first triggerTrim or the end.
Write ==
    /\ pc = "idle"
    /\ Calls(used) < MaxCalls
    /\ inited' = TRUE
    /\ When' = WhenAfterInit(When, inited)
    /\ \E fail \in FaultChoice(used.f) : WriteFrom(Begin("Write", used.w + 1), fail)
    /\ UNCHANGED <<RotationSchedule, timeRotationSchedule, Backups, now, trimCh,
                   wpc, wList, wRemove, trimHist, res>>

\* Rotate on a File whose init failed.  init has set f.directory, f.fileBase
\* and f.ext but not f.BackupTimeFormat (line 121 returns before line 139),
\* so filenameWithTimestamp gives the name of the active file itself.  An
\* active file that is absent or empty is created and opened by rotateOpen,
\* and the triggerTrim of rotate returns f.initErr.  A non-empty active file
\* is found as its own backup (line 322): io.CopyBuffer appends the file to
\* itself, reading what it has appended, and the call does not return;
\* dstFile (line 326) and file (line 330) are both open on the active file.
RotateFailedInit(s, t) ==
    IF Exists(s.dir, Filename) /\ Size(s.dir, Filename) > 0
    THEN Step([close(s) EXCEPT !.held = @ + 2], "copy", "force")
    ELSE StepErr(Rotated(s, rotateOpen(close(s), t)), "force")

RotateOutcome(c, fail) ==
    IF ~inited
    THEN StepErr(S(c), "force")
    ELSE IF initErr
    THEN RotateFailedInit(S(c), now)
    ELSE IF fail
    THEN StepErr(rotateFail(S(c)), "force")
    ELSE Step(rotateBegin(S(c), now), "rotate_trim", "force")

RotateFrom(c, fail) ==
    Took(RotateOutcome(c, fail), c, [used EXCEPT !.r = @ + 1], fail)

\* File.Rotate().  Before init has run f.directory is empty and
\* os.MkdirAll fails: the call returns the error and changes nothing.
Rotate ==
    /\ pc = "idle"
    /\ Calls(used) < MaxCalls
    /\ \E fail \in FaultChoice(used.f) : RotateFrom(Begin("Rotate", 0), fail)
    /\ UNCHANGED <<When, RotationSchedule, timeRotationSchedule, Backups, inited, now, trimCh,
                   wpc, wList, wRemove, trimHist, res>>

CloseFrom(c) == Apply(Step(close(S(c)), "idle", "none"), c)

\* File.Close()
Close ==
    /\ pc = "idle"
    /\ Calls(used) < MaxCalls
    /\ used' = [used EXCEPT !.c = @ + 1, !.h = close(S(NoCall)).held]
    /\ CloseFrom(Begin("Close", 0))
    /\ UNCHANGED <<When, RotationSchedule, timeRotationSchedule, Backups, inited, now, trimCh,
                   wpc, wList, wRemove, trimHist, res>>

\* A channel with room for two requests.
fullAtTwo(n) == n >= 2

\* trimCh is made with room for one request (line 141): it is full when it
\* holds one.
full(n) == n >= 1

\* A triggerTrim that returns the errors of the trim before it.
TriggerOutcomeTrimErr(c, fail) ==
    IF trimHist.errs # <<>>
    THEN StepErr(S(c), "trim")
    ELSE IF pc = "open_trim"
    THEN openExistingOrNew(When, timeRotationSchedule, S(c), now, c.wid)
    ELSE afterRotate(When, timeRotationSchedule, S(c), now, c)

TriggerOutcome(c, fail) ==
    IF pc = "open_trim"
    THEN IF fail
         THEN openExistingOrNewFail(When, timeRotationSchedule, S(c), now, c.wid)
         ELSE openExistingOrNew(When, timeRotationSchedule, S(c), now, c.wid)
    ELSE afterRotate(When, timeRotationSchedule, S(c), now, c)

\* A triggerTrim that sends its request when a file is opened only, and
\* not after a rotation.
TriggerTrimAtOpen ==
    /\ pc \in {"open_trim", "rotate_trim"}
    /\ pc = "open_trim" => trimCh = 0
    /\ trimCh' = IF pc = "open_trim" THEN 1 ELSE trimCh
    /\ \E fail \in FaultChoice(used.f) : Took(TriggerOutcome(cur, fail), cur, used, fail)
    /\ UNCHANGED <<When, RotationSchedule, timeRotationSchedule, Backups, inited, now,
                   wpc, wList, wRemove, trimHist, res>>

\* File.triggerTrim: the send on trimCh, which waits while the buffer is
\* full, and then the call goes on.
TriggerTrim ==
    /\ pc \in {"open_trim", "rotate_trim"}
    /\ ~full(trimCh)
    /\ trimCh' = trimCh + 1
    /\ \E fail \in FaultChoice(used.f) : Took(TriggerOutcome(cur, fail), cur, used, fail)
    /\ UNCHANGED <<When, RotationSchedule, timeRotationSchedule, Backups, inited, now,
                   wpc, wList, wRemove, trimHist, res>>

\* nowFunc() moves on to the next instant, between calls.
Tick ==
    /\ pc = "idle"
    /\ \E i \in 1..(Len(Grid(When)) - 1) :
          /\ now = Grid(When)[i]
          /\ now' = Grid(When)[i + 1]
    /\ UNCHANGED <<When, RotationSchedule, timeRotationSchedule, Backups, inited, dir, file,
                   prevRotateAt, rotateAt, trimCh, pc, cur, wpc, wList,
                   wRemove, hist, trimHist, used, res>>

\* The record of a trim: what it listed, what it has removed, the errs it
\* has collected (each the name os.Remove failed on), and, once it has
\* ended, the backups then in the directory.
TrimRecord(listed, removed, errs, ended, d) ==
    [done |-> ended, keep |-> Backups, listed |-> listed, removed |-> removed,
     errs |-> errs, after |-> IF ended THEN BackupNames(d) ELSE {}]

\* trim lines 420-451 with the directory listed: pick what to remove.
TrimPick(listed, rm) ==
    /\ wpc' = IF rm = <<>> THEN "idle" ELSE "remove"
    /\ wList' = IF rm = <<>> THEN {} ELSE listed
    /\ wRemove' = rm
    /\ trimHist' = TrimRecord(listed, {}, <<>>, rm = <<>>, dir)

TrimListed(listed) == TrimPick(listed, toRemove(SortNewestFirst(listed), Backups))

\* A test that lets a retention count of zero through to the removal.
keepsAllBelowZero(backups) == backups < 0

\* trim lines 417-419: with f.Backups <= 0 every backup is kept.
keepsAll(backups) == backups <= 0

\* A worker that takes f.mu before it receives: it waits while a call is
\* under way.
TrimRecvLocked ==
    /\ pc = "idle"
    /\ inited
    /\ ~initErr
    /\ wpc = "idle"
    /\ trimCh > 0
    /\ trimCh' = trimCh - 1
    /\ wpc' = IF keepsAll(Backups) THEN "idle" ELSE "trim"
    /\ UNCHANGED <<When, RotationSchedule, timeRotationSchedule, Backups, inited, now, dir, file,
                   prevRotateAt, rotateAt, pc, cur, wList, wRemove, hist,
                   trimHist, used, res>>

\* The worker of init (lines 142-146) takes a request from trimCh and
\* calls trim, which returns at once when Backups <= 0 (lines 417-419).
TrimRecv ==
    /\ inited
    /\ ~initErr
    /\ wpc = "idle"
    /\ trimCh > 0
    /\ trimCh' = trimCh - 1
    /\ wpc' = IF keepsAll(Backups) THEN "idle" ELSE "trim"
    /\ UNCHANGED <<When, RotationSchedule, timeRotationSchedule, Backups, inited, now, dir, file,
                   prevRotateAt, rotateAt, pc, cur, wList, wRemove, hist,
                   trimHist, used, res>>

\* trim lines 420-451: list the directory.
TrimList ==
    /\ wpc = "trim"
    /\ TrimListed(BackupNames(dir))
    /\ UNCHANGED <<When, RotationSchedule, timeRotationSchedule, Backups, inited, now, dir, file,
                   prevRotateAt, rotateAt, trimCh, pc, cur, hist, used, res>>

\* A loop that ends at the first os.Remove that fails.
remainingUntilError(rm, failed) == IF failed THEN <<>> ELSE Tail(rm)

\* trim lines 454-459: the loop goes on to the next file whether or not
\* os.Remove has failed.
remaining(rm, failed) == Tail(rm)

\* trim lines 455-458: a file is removed, or os.Remove fails, the file
\* stays and the error is appended to errs.
Removed(d, name, failed) == IF failed THEN d ELSE Remove(d, name)

TrimRemoved(name, rest, failed) ==
    /\ dir' = Removed(dir, name, failed)
    /\ wRemove' = rest
    /\ wpc' = IF rest = <<>> THEN "idle" ELSE "remove"
    /\ wList' = IF rest = <<>> THEN {} ELSE wList
    /\ trimHist' = TrimRecord(wList,
                              trimHist.removed \cup (IF failed THEN {} ELSE {name}),
                              trimHist.errs \o (IF failed THEN <<name>> ELSE <<>>),
                              rest = <<>>, dir')
    /\ used' = [used EXCEPT !.d = @ - (IF failed THEN 1 ELSE 0)]

\* trim lines 453-459: remove the next file.  The worker drops what trim
\* returns (line 144).
TrimRemove ==
    /\ wpc = "remove"
    /\ \E failed \in FaultChoice(used.d) :
          TrimRemoved(Head(wRemove), remaining(wRemove, failed), failed)
    /\ UNCHANGED <<When, RotationSchedule, timeRotationSchedule, Backups, inited, now, file,
                   prevRotateAt, rotateAt, trimCh, pc, cur, hist, res>>

Next ==
    \/ Write
    \/ Rotate
    \/ Close
    \/ TriggerTrim
    \/ Tick
    \/ TrimRecv
    \/ TrimList
    \/ TrimRemove

Spec == Init /\ [][Next]_vars

\* Errors of the file system a run may meet.
MaxFaults == 1

\* A file system that may fail a rotateOpen.
InitFaults == InitWith([NoUse EXCEPT !.f = MaxFaults])

SpecFaults == InitFaults /\ [][Next]_vars

\* Errors of os.Remove a run may meet.
MaxRemoveFaults == 2

\* A file system that may fail an os.Remove of trim, and a retention count
\* above zero.
InitTrim == InitWith([NoUse EXCEPT !.d = MaxRemoveFaults]) /\ Backups = 1

SpecTrim == InitTrim /\ [][Next]_vars

\* A retention count above zero.
InitLive == Init /\ Backups = 1

\* The caller leaves its send: a step enabled exactly when TriggerTrim is,
\* which every TriggerTrim step ends.
Sends ==
    /\ pc \in {"open_trim", "rotate_trim"}
    /\ ~full(trimCh)
    /\ trimCh' = trimCh + 1
    /\ UNCHANGED <<When, RotationSchedule, timeRotationSchedule, Backups, inited,
                   now, dir, file, prevRotateAt, rotateAt, pc, cur, wpc, wList,
                   wRemove, hist, trimHist, used, res>>

\* The worker leaves its listing: a step enabled exactly when TrimList is,
\* which every TrimList step ends.
Lists ==
    /\ wpc = "trim"
    /\ wpc' = "idle"
    /\ UNCHANGED <<When, RotationSchedule, timeRotationSchedule, Backups, inited,
                   now, dir, file, prevRotateAt, rotateAt, trimCh, pc, cur, wList,
                   wRemove, hist, trimHist, used, res>>

\* A goroutine that can run does run: the caller does not stay at its send
\* while trimCh has room, and the worker does not stay before its receive,
\* its listing or a removal.
Fairness ==
    /\ WF_vars(Sends)
    /\ WF_vars(TrimRecv)
    /\ WF_vars(Lists)
    /\ WF_vars(TrimRemove)

SpecLive == InitLive /\ [][Next]_vars /\ Fairness

\* Configurations that fail init, and one that passes it.
InitAny == InitOf({Config(Hour, RawSchedule(Hour))} \cup BadConfigs, NoUse)

SpecInit == InitAny /\ [][Next]_vars

-----------------------------------------------------------------------------
(* Callers on several goroutines.  Write calls f.init() before it takes     *)
(* f.mu (lines 185-188), so between the init of a first Write and its Lock  *)
(* other calls can take f.mu.  initOnce runs the body of init once; a       *)
(* Rotate that reads the fields init sets without having synchronised with  *)
(* it sees them either as before init or as after it.                       *)

\* Write on a File literal, up to its f.mu.Lock(): init has run.
WriteInit ==
    /\ ~inited
    /\ pc = "idle"
    /\ Calls(used) < MaxCalls
    /\ inited' = TRUE
    /\ When' = WhenAfterInit(When, inited)
    /\ used' = Inits(used, inited)
    /\ UNCHANGED <<RotationSchedule, timeRotationSchedule, Backups, now, dir, file,
                   prevRotateAt, rotateAt, trimCh, pc, cur, wpc, wList,
                   wRemove, hist, trimHist, res>>

\* A File literal: no UnmarshalJSON / UnmarshalYAML has run init.
InitThreads == Init /\ inited = FALSE

NextThreads == WriteInit \/ Next

SpecThreads == InitThreads /\ [][NextThreads]_vars

-----------------------------------------------------------------------------
(* The rotation clock on its own: calcRotationTimes asked at the instants   *)
(* of a list, for every unit and several schedules of each.                 *)

\* Offsets as written in RotationSchedule, before init sorts them.
ClockRaw(r) ==
    CASE r = Hour  -> { <<>>, <<Sch(0, 0, 0, 45, 30), Sch(0, 0, 0, 15, 0)>>,
                        <<Sch(0, 0, 0, 45, 30), Sch(0, 0, 0, 15, 0),
                          Sch(0, 0, 0, 45, 30)>> }
      [] r = Day   -> { <<>>, RawSchedule(Day), <<Sch(0, 0, 25, 0, 0)>> }
      [] r = Month -> { <<>>, RawSchedule(Month),
                        <<Sch(0, 10, 12, 0, 0), Sch(0, 20, 0, 0, 0)>> }
      [] r = Year  -> { <<>>, <<Sch(1, 31, 1, 0, 0), Sch(2, 1, 0, 0, 0)>>,
                        <<Sch(9, 1, 0, 0, 0), Sch(3, 15, 6, 0, 0)>> }
      [] OTHER     -> { <<>> }

\* The units as configured: the four codes, no unit, codes in capitals and
\* values that are no code in any case.
ClockUnits == {Hour, Day, Month, Year, "", "H", "D", "M", "Y", "HOUR", "hour", "a"}

\* The query times, among them instants of each schedule.
ClockTimes(r) ==
    CASE r = Hour  -> <<Date(2020, 8, 9, 9, 0, 0), Date(2020, 8, 9, 9, 10, 0),
                        Date(2020, 8, 9, 9, 15, 0), Date(2020, 8, 9, 9, 30, 0),
                        Date(2020, 8, 9, 9, 45, 30), Date(2020, 8, 9, 9, 50, 0),
                        Date(2020, 8, 9, 10, 0, 0)>>
      [] r = Day   -> <<Date(2021, 5, 9, 16, 0, 0), Date(2021, 5, 9, 19, 0, 0),
                        Date(2021, 5, 10, 0, 0, 0), Date(2021, 5, 10, 0, 59, 59),
                        Date(2021, 5, 10, 1, 0, 0), Date(2021, 5, 10, 8, 30, 0),
                        Date(2021, 5, 10, 12, 0, 0), Date(2021, 5, 10, 20, 0, 0)>>
      [] r = Month -> <<Date(2021, 1, 15, 0, 0, 0), Date(2021, 1, 31, 0, 0, 0),
                        Date(2021, 1, 31, 12, 0, 0), Date(2021, 2, 1, 0, 0, 0),
                        Date(2021, 2, 10, 12, 0, 0), Date(2021, 2, 28, 0, 0, 0),
                        Date(2021, 3, 1, 0, 0, 0), Date(2021, 3, 3, 0, 0, 0),
                        Date(2021, 3, 5, 0, 0, 0)>>
      [] r = Year  -> <<Date(2021, 1, 1, 0, 0, 0), Date(2021, 1, 31, 0, 30, 0),
                        Date(2021, 1, 31, 12, 0, 0), Date(2021, 2, 1, 0, 0, 0),
                        Date(2021, 2, 15, 0, 0, 0), Date(2021, 3, 15, 6, 0, 0),
                        Date(2021, 12, 31, 0, 0, 0)>>
      [] OTHER     -> <<Date(2020, 8, 9, 9, 0, 0), Date(2020, 8, 9, 10, 0, 0)>>

InitClock ==
    /\ When \in ClockUnits
    /\ RotationSchedule \in ClockRaw(When)
    /\ timeRotationSchedule = <<>>
    /\ now = ClockTimes(initWhen(When))[1]
    /\ res = NoRes
    /\ Backups = 0
    /\ inited = FALSE
    /\ dir = Pick({}, <<>>)
    /\ file = FALSE
    /\ prevRotateAt = ZeroTime
    /\ rotateAt = ZeroTime
    /\ trimCh = 0
    /\ pc = "idle"
    /\ cur = NoCall
    /\ wpc = "idle"
    /\ wList = {}
    /\ wRemove = <<>>
    /\ hist = NoCall
    /\ trimHist = NoTrim
    /\ used = NoUse

\* f.init(): the schedule is parsed and sorted, unless the configuration
\* fails.
init ==
    /\ ~inited
    /\ inited' = TRUE
    /\ When' = WhenAfterInit(When, inited)
    /\ timeRotationSchedule' \in InitSchedules(When', RotationSchedule)
    /\ used' = Inits(used, inited)
    /\ UNCHANGED <<RotationSchedule, Backups, now, dir, file,
                   prevRotateAt, rotateAt, trimCh, pc, cur, wpc, wList,
                   wRemove, hist, trimHist, res>>

Asked(t, w) == [asked |-> TRUE, t |-> t, prev |-> w.prev, next |-> w.next, via |-> w.via]

\* calcRotationTimes(nowFunc())
Calc ==
    /\ inited
    /\ ~initErr
    /\ res' = Asked(now, calcRotationTimes(When, timeRotationSchedule, now))
    /\ UNCHANGED <<When, RotationSchedule, timeRotationSchedule, Backups, inited, now, dir, file,
                   prevRotateAt, rotateAt, trimCh, pc, cur, wpc, wList,
                   wRemove, hist, trimHist, used>>

\* The next query time.
Advance ==
    /\ \E i \in 1..(Len(ClockTimes(When)) - 1) :
          /\ now = ClockTimes(When)[i]
          /\ now' = ClockTimes(When)[i + 1]
    /\ UNCHANGED <<When, RotationSchedule, timeRotationSchedule, Backups, inited, dir, file,
                   prevRotateAt, rotateAt, trimCh, pc, cur, wpc, wList,
                   wRemove, hist, trimHist, used, res>>

NextClock ==
    \/ init
    \/ Calc
    \/ Advance

SpecClock == InitClock /\ [][NextClock]_vars

-----------------------------------------------------------------------------
(* The offset parser on its own: parseTimeSchedule applied to offset        *)
(* strings of every unit, well formed and not, in range and not.  res holds *)
(* the string and, once parsed, what parseTimeSchedule returned.            *)

\* Two-digit groups, among them the ends of every range and their
\* neighbours.
GroupStrs(name) ==
    CASE name = "months"  -> {<<"0", "0">>, <<"0", "1">>, <<"0", "2">>,
                              <<"0", "6">>, <<"1", "2">>, <<"1", "3">>}
      [] name = "days"    -> {<<"0", "0">>, <<"0", "1">>, <<"1", "5">>,
                              <<"3", "1">>, <<"3", "2">>}
      [] name = "hours"   -> {<<"0", "0">>, <<"1", "9">>, <<"2", "3">>, <<"2", "4">>}
      [] name = "minutes" -> {<<"0", "0">>, <<"1", "4">>, <<"5", "9">>, <<"6", "0">>}
      [] name = "seconds" -> {<<"0", "0">>, <<"4", "5">>, <<"5", "9">>, <<"6", "0">>}

\* The string of a pattern with the groups g, a group for every name.
StrOf(re, names, g) ==
    [i \in 1..Len(re) |->
        IF re[i] = D
        THEN g[names[GroupOf(re, i)]][i - GroupStart(re, GroupOf(re, i)) + 1]
        ELSE re[i]]

\* The strings of the shape of a unit.
Shaped(r) ==
    { StrOf(offsetRegex(r), SubexpNames(r),
            [months |-> mo, days |-> d, hours |-> h, minutes |-> mi, seconds |-> s]) :
        mo \in GroupStrs("months"), d \in GroupStrs("days"),
        h \in GroupStrs("hours"), mi \in GroupStrs("minutes"),
        s \in GroupStrs("seconds") }

\* Strings that miss the shape: a character short, one too many, a
\* leading blank, a letter for the first or the last digit, a blank for
\* every separator.
Misshaped(str) ==
    { Tail(str), Append(str, "0"), <<" ">> \o str,
      [str EXCEPT ![1] = "x"], [str EXCEPT ![Len(str)] = "x"],
      [i \in 1..Len(str) |-> IF IsDigit(str[i]) THEN str[i] ELSE " "] }

\* Every unit is given the strings of every unit.
OffsetStrs ==
    UNION { Shaped(r) \cup UNION { Misshaped(str) : str \in Shaped(r) } :
            r \in {Hour, Day, Month, Year} }

\* "D" is no unit: parseTimeSchedule is given the unit as it is.
ParseUnits == {Hour, Day, Month, Year, "D"}

NoParse(str) == [asked |-> FALSE, str |-> str, out |-> Err("")]

InitParse ==
    /\ When \in ParseUnits
    /\ RotationSchedule = <<>>
    /\ timeRotationSchedule = <<>>
    /\ res \in {NoParse(str) : str \in OffsetStrs}
    /\ now = ZeroTime
    /\ Backups = 0
    /\ inited = FALSE
    /\ dir = Pick({}, <<>>)
    /\ file = FALSE
    /\ prevRotateAt = ZeroTime
    /\ rotateAt = ZeroTime
    /\ trimCh = 0
    /\ pc = "idle"
    /\ cur = NoCall
    /\ wpc = "idle"
    /\ wList = {}
    /\ wRemove = <<>>
    /\ hist = NoCall
    /\ trimHist = NoTrim
    /\ used = NoUse

\* f.When.parseTimeSchedule(schedule)
ParseOffset ==
    /\ ~res.asked
    /\ res' = [asked |-> TRUE, str |-> res.str, out |-> parseOffsetStr(When, res.str)]
    /\ UNCHANGED <<When, RotationSchedule, timeRotationSchedule, Backups, inited, now,
                   dir, file, prevRotateAt, rotateAt, trimCh, pc, cur, wpc, wList,
                   wRemove, hist, trimHist, used>>

NextParse == ParseOffset

SpecParse == InitParse /\ [][NextParse]_vars

-----------------------------------------------------------------------------
(* The writer and the trimmer: properties of Spec.  hist is the last call   *)
(* that returned and trimHist the last trim.                                *)

\* The ids of the payloads in a file's content.
Ids(content) == {content[i].id : i \in 1..Len(content)}

\* The call archived `moved` into the backup named after `stored`, behind
\* whatever that backup held.
ArchivedUnder(c, stored, moved) ==
    \E a \in c.arch :
        /\ a.name = filenameWithTimestamp(stored)
        /\ a.after = a.before \o moved

\* The call rotated once: what the active file held is archived under
\* `stored` and the payload is alone in a fresh active file.
RotatedThenWrote(c, stored) ==
    /\ c.rots = 1
    /\ c.postActive = <<Payload(c.wid, c.postPrev)>>
    /\ c.preActive # <<>> => ArchivedUnder(c, stored, c.preActive)

\* The call did not rotate: the payload follows what the active file held.
WroteInPlace(c, stored) ==
    /\ c.rots = 0
    /\ c.arch = {}
    /\ c.postActive = c.preActive \o <<Payload(c.wid, stored)>>

\* C1: a Write on an open file rotates before it appends when the current
\* time is after the stored rotateAt, and appends without rotating when the
\* current time is at or before it.
C1_WriteRotatesWhenDue ==
    (hist.op = "Write" /\ hist.preOpen) =>
        IF After(hist.t, hist.preNext)
        THEN RotatedThenWrote(hist, hist.prePrev)
        ELSE WroteInPlace(hist, hist.prePrev)

\* A Write on an open file with content came after rotateAt and rotated.
C1_Witness ==
    /\ hist.op = "Write"
    /\ hist.preOpen
    /\ After(hist.t, hist.preNext)
    /\ hist.preActive # <<>>
    /\ hist.rots = 1
    /\ hist.postActive = <<Payload(hist.wid, hist.postPrev)>>

\* The prevRotateAt stored when the rotation of call c began.
StoredAtRotation(c) == IF c.open.done THEN c.open.prev ELSE c.prePrev

\* Every payload of this run in a backup was written while the
\* prevRotateAt of the backup's name was stored.
PayloadsUnderName(d) ==
    \A n \in BackupNames(d) : \A i \in 1..Len(d[n].content) :
        d[n].content[i].id >= 1 => n = filenameWithTimestamp(d[n].content[i].under)

OpenedWith(c, w) ==
    /\ c.open.existed
    /\ c.open.prev = w.prev
    /\ c.open.next = w.next
    /\ IF After(c.t, w.next) THEN RotatedThenWrote(c, w.prev) ELSE WroteInPlace(c, w.prev)

\* C5: a Write that opens an existing file takes the window of the file's
\* modification time; past its next it rotates once before the append,
\* else it appends behind the existing content.
C5_OpenExisting ==
    (hist.op = "Write" /\ ~hist.preOpen /\ hist.preExists) =>
        OpenedWith(hist, calcRotationTimes(When, timeRotationSchedule, hist.preModTime))

\* An existing file with content, last modified in an earlier window, was
\* opened and rotated.
C5_Witness ==
    /\ hist.op = "Write"
    /\ ~hist.preOpen
    /\ hist.preExists
    /\ hist.preActive # <<>>
    /\ hist.preModTime # hist.t
    /\ After(hist.t, hist.open.next)
    /\ hist.rots = 1

\* Day with offsets 01:00, 08:30, 14:00, 19:00; a file last modified on
\* 2021-05-09 at 16:00 is opened on 2021-05-10 at 00:00.
OpenAtMidnight ==
    /\ When = Day
    /\ hist.op = "Write"
    /\ ~hist.preOpen
    /\ hist.preExists
    /\ hist.preModTime = Date(2021, 5, 9, 16, 0, 0)
    /\ hist.t = Date(2021, 5, 10, 0, 0, 0)

\* C6 as amended: the open computes previous = yesterday 14:00 and next =
\* yesterday 19:00 from the modification time, rotates at once into the
\* backup of yesterday 14:00, and leaves the window yesterday 19:00 to
\* today 01:00.
C6_MissedRotationAtMidnight ==
    OpenAtMidnight =>
        /\ hist.open.prev = Date(2021, 5, 9, 14, 0, 0)
        /\ hist.open.next = Date(2021, 5, 9, 19, 0, 0)
        /\ RotatedThenWrote(hist, Date(2021, 5, 9, 14, 0, 0))
        /\ hist.postPrev = Date(2021, 5, 9, 19, 0, 0)
        /\ hist.postNext = Date(2021, 5, 10, 1, 0, 0)

\* The file of yesterday 16:00, with content, was opened at midnight.
C6_Witness == OpenAtMidnight /\ hist.preActive # <<>> /\ hist.rots = 1

\* C6 as stated: the open computes previous = yesterday 14:00 together with
\* next = today 01:00, be it the window of the open or the one it leaves.
C6_AsStated ==
    OpenAtMidnight =>
        \/ /\ hist.open.prev = Date(2021, 5, 9, 14, 0, 0)
           /\ hist.open.next = Date(2021, 5, 10, 1, 0, 0)
        \/ /\ hist.postPrev = Date(2021, 5, 9, 14, 0, 0)
           /\ hist.postNext = Date(2021, 5, 10, 1, 0, 0)

\* The second of two checks leaves what the first left.
SecondCheckIdle(s1, s2) ==
    /\ s2.rots = s1.rots
    /\ s2.prev = s1.prev
    /\ s2.next = s1.next
    /\ s2.dir = s1.dir

CheckedTwice(s1) ==
    SecondCheckIdle(s1, checkAndRotate(When, timeRotationSchedule, s1, now))

\* C7: with the file open, checkAndRotate called twice at the same time
\* rotates at most once, and the second call leaves prevRotateAt and
\* rotateAt as the first left them.
C7_CheckIdempotent ==
    (pc = "idle" /\ file) =>
        CheckedTwice(checkAndRotate(When, timeRotationSchedule, S(NoCall), now))

\* The file is open with content and the first check rotates.
C7_Witness ==
    /\ pc = "idle"
    /\ file
    /\ ActiveContent(dir) # <<>>
    /\ shouldRotate(S(NoCall), now)
    /\ checkAndRotate(When, timeRotationSchedule, S(NoCall), now).rots = 1

\* Payload ids ascend along the content.
InWriteOrder(content) ==
    \A i \in 1..Len(content) : \A j \in 1..Len(content) :
        i < j => content[i].id < content[j].id

\* C8: a rotation that finds the backup of its name appends the active
\* file's content behind what the backup holds and starts a fresh active
\* file; every backup holds its payloads in write order.
C8_AppendToExisting ==
    /\ \A a \in hist.arch :
          /\ a.after = a.before \o hist.preActive
          /\ hist.preActive # <<>>
    /\ hist.rots >= 1 =>
          hist.postActive \in {<<>>, <<Payload(hist.wid, hist.postPrev)>>}
    /\ \A n \in BackupNames(dir) : InWriteOrder(dir[n].content)

\* A second forced rotation added the second payload to the backup that
\* held the first.
C8_Witness ==
    /\ hist.op = "Rotate"
    /\ \E a \in hist.arch :
          /\ a.existed
          /\ 1 \in Ids(a.before)
          /\ 2 \in Ids(a.after)
          /\ a.after = a.before \o hist.preActive

\* C9: a rotation of an empty active file changes no backup, and no backup
\* is empty.
C9_NoEmptyBackup ==
    /\ \A n \in BackupNames(dir) : dir[n].content # <<>>
    /\ (hist.rots >= 1 /\ hist.preActive = <<>>) => hist.arch = {}

\* The second of two forced rotations found the active file empty.
C9_Witness ==
    /\ hist.op = "Rotate"
    /\ used.r = 2
    /\ hist.rots = 1
    /\ hist.preExists
    /\ hist.preActive = <<>>
    /\ hist.arch = {}
    /\ BackupNames(dir) # {}

\* The k names with the newest parsed timestamps.
NewestK(names, k) ==
    {n \in names :
        Cardinality({m \in names : After(Parse(m.mid).t, Parse(n.mid).t)}) < k}

\* C10: a trim with Backups = k > 0 removes, of the backups it listed, all
\* but the k with the newest timestamps; when no backup appeared meanwhile
\* those k are the backups left.
C10_TrimKeepsNewest ==
    (trimHist.done /\ trimHist.keep > 0) =>
        /\ trimHist.removed = trimHist.listed \ NewestK(trimHist.listed, trimHist.keep)
        /\ trimHist.after \cap trimHist.listed = NewestK(trimHist.listed, trimHist.keep)
        /\ trimHist.after \subseteq trimHist.listed =>
              trimHist.after = NewestK(trimHist.listed, trimHist.keep)

\* A trim that listed three backups removed the two oldest.
C10_Witness ==
    /\ trimHist.done
    /\ trimHist.keep = 1
    /\ Cardinality(trimHist.listed) = 3
    /\ Cardinality(trimHist.removed) = 2
    /\ trimHist.after = NewestK(trimHist.listed, 1)


\* A name trim may take for a backup of this file: the base name, a
\* timestamp in the backup layout, the extension.
WellFormedBackup(name) ==
    /\ name.base = fileBase
    /\ name.ext = ext
    /\ Parse(name.mid).ok

\* A step of the trim worker.
TrimStep == wpc' # wpc \/ wRemove' # wRemove \/ trimHist' # trimHist

\* What a step leaves of the entries that are not well-formed backups, and
\* of the entries that stay.
TrimSpares ==
    /\ \A n \in DOMAIN dir : ~WellFormedBackup(n) => n \in DOMAIN dir'
    /\ \A n \in DOMAIN dir' : n \in DOMAIN dir /\ dir'[n] = dir[n]

\* C11: trim never deletes or modifies a directory entry that is not a
\* well-formed backup of this file: an entry without the prefix or the
\* suffix, an entry whose middle does not parse in the backup layout (a
\* file of the same prefix in another timestamp format included), and the
\* active file all stay as they are through every step of the worker.
C11_TrimSparesOthers == [][TrimStep => TrimSpares]_vars

\* A trim with Backups = 1 has removed a backup, with the two unrelated
\* files and the active file in the directory.
C11_Witness ==
    /\ trimHist.done
    /\ trimHist.keep = 1
    /\ trimHist.removed # {}
    /\ \A n \in trimHist.removed : WellFormedBackup(n)
    /\ {OtherFormat, OtherFile, Filename} \subseteq DOMAIN dir

\* Every well-formed backup of the directory is still there after the step.
BackupsStay == \A n \in DOMAIN dir : WellFormedBackup(n) => n \in DOMAIN dir'

\* C12: with a retention count of zero or less trimming is a no-op: the
\* worker changes nothing in the directory, and no step of any run of
\* opens, writes, rotations and closes deletes a backup.
C12_NoTrimKeepsAll ==
    [][Backups <= 0 => (BackupsStay /\ (TrimStep => dir' = dir))]_vars

\* With Backups <= 0 the worker has taken a request with three backups in
\* the directory (two old ones and the one a rotation made), and they stay.
C12_Witness ==
    /\ Backups <= 0
    /\ hist.rots >= 1
    /\ hist.arch # {}
    /\ trimCh = 0
    /\ pc = "idle"
    /\ Cardinality(BackupNames(dir)) = 3

\* C13: triggering a trim does not block: a Write or Rotate that stands at
\* the send of triggerTrim never has to wait for the trim worker, that is,
\* it is never held there by a full trimCh while a trim is running.
C13_TriggerNeverWaits ==
    pc \in {"open_trim", "rotate_trim"} => ~(trimCh = 1 /\ wpc # "idle")

(* Concurrent callers: properties of SpecThreads                            *)

\* C14: calls are serialized, each taking effect atomically, so every run
\* equals the calls made one after another in some order.  On a File
\* literal a Rotate that takes effect before any Write has entered the
\* exclusive region is then a Rotate before every Write: the File is not
\* initialised and the call returns the error of os.MkdirAll.
C14_CallsAtomic ==
    (hist.op = "Rotate" /\ used.w = 0) => hist.err

\* The call ended with the window of the time it ran at.
WindowOfNow(c) ==
    /\ c.postPrev = calcRotationTimes(When, timeRotationSchedule, c.t).prev
    /\ c.postNext = calcRotationTimes(When, timeRotationSchedule, c.t).next

\* The call rotated by File.rotate: what the active file held went to the
\* backup named after the prevRotateAt stored when the rotation began.
RanRotate(c) ==
    /\ c.rots = 1
    /\ c.preActive # <<>> => ArchivedUnder(c, StoredAtRotation(c), c.preActive)
    /\ \A a \in c.arch : a.name = filenameWithTimestamp(StoredAtRotation(c))

OpenedOrRotated == used.w > 0 \/ file

AtMostKept == Cardinality(BackupNames(dir)) <= Backups

\* C19: a trim is requested after every open and after every rotation, once
\* the rotation has made its backup; so with Backups = k > 0, from some
\* point on (when the calls have stopped and the worker has caught up) the
\* directory holds at most k well-formed backups.
C19_TrimCatchesUp == <>[](OpenedOrRotated => AtMostKept)

\* A rotation has added a third backup and its request is in trimCh.
C19_Witness ==
    /\ Backups = 1
    /\ hist.rots >= 1
    /\ hist.arch # {}
    /\ trimCh = 1
    /\ Cardinality(BackupNames(dir)) = 3

(* A file system that fails: properties of SpecFaults                       *)

\* C15: (prevRotateAt, rotateAt) are only updated after a successful
\* operation: a call on an open file whose rotation failed with an error of
\* the file system leaves both as they were when it began, so that the next
\* Write takes the same decision again.
C15_WindowKeptOnFailure ==
    (hist.preOpen /\ hist.fails > 0) =>
        (hist.postPrev = hist.prePrev /\ hist.postNext = hist.preNext)

\* C16: every error of the file system met during an open or a rotation is
\* returned to the caller: a call in which rotateOpen failed returns an
\* error, and in particular a Write whose missed rotation failed while it
\* opened the file does not succeed by appending to the file as it was.
C16_ErrorsSurface == hist.fails > 0 => hist.err

(* Initialisation: properties of SpecInit                                   *)

\* A step in which a Write is called on a configuration that fails init.
WriteOnBadConfig ==
    used'.w > used.w /\ ~ConfigOk(When, RotationSchedule)

\* The Write returns the error and leaves the directory and the File alone.
WriteRefused ==
    /\ hist'.op = "Write"
    /\ hist'.err
    /\ pc' = "idle"
    /\ dir' = dir
    /\ file' = file
    /\ prevRotateAt' = prevRotateAt
    /\ rotateAt' = rotateAt
    /\ trimCh' = trimCh

\* C17: the configuration is validated exactly once: the body of init runs
\* at most once, and not again once init has run, whether it failed or
\* succeeded.  When it failed every later Write returns the error, writes
\* nothing and creates no file, so no Write ever succeeds.
C17_InitOnce ==
    [][/\ used'.v <= 1
       /\ inited => (inited' /\ used'.v = used.v)
       /\ WriteOnBadConfig => WriteRefused]_vars

\* Two Writes on a configuration that fails init, in an empty directory.
C17_Witness ==
    /\ ~ConfigOk(When, RotationSchedule)
    /\ used.w >= 2
    /\ used.v = 1
    /\ hist.op = "Write"
    /\ hist.err
    /\ ~Exists(dir, Filename)

(* The rotation clock: properties of SpecClock                              *)

\* C3: for every unit, every schedule set and every query time t, the pair
\* calcRotationTimes returns brackets t: previous <= t < next.
C3_Bracket == res.asked => (res.prev <= res.t /\ res.t < res.next)

\* A query that fell past the last offset of its period was answered.
C3_Witness == res.asked /\ res.via = "wrap" /\ res.prev <= res.t /\ res.t < res.next

\* The instant of offset sch in the period k units away from that of c.
Anchor(r, c, sch, k) ==
    CASE r = Hour  -> Date(c.year, c.month, c.day, c.hour + k, sch.minute, sch.second)
      [] r = Day   -> Date(c.year, c.month, c.day + k, sch.hour, sch.minute, sch.second)
      [] r = Month -> Date(c.year, c.month + k, sch.day, sch.hour, sch.minute, sch.second)
      [] r = Year  -> Date(c.year + k, sch.month, sch.day, sch.hour, sch.minute, sch.second)

\* The scheduled instants of the periods around c.
InstantsCivil(r, schedules, c) ==
    {Anchor(r, c, schedules[i], k) : i \in 1..Len(schedules), k \in (0 - 2)..2}

Instants(r, schedules, t) == InstantsCivil(r, schedules, Civil(t))

Tightest(prev, next, t, instants) ==
    /\ prev \in instants
    /\ next \in instants
    /\ prev <= t
    /\ t < next
    /\ \A x \in instants : x <= prev \/ x >= next

\* C4: the pair is the tightest bracket: previous is the latest scheduled
\* instant at or before t and next the earliest scheduled instant after t.
C4_Tightest ==
    res.asked =>
        Tightest(res.prev, res.next, res.t, Instants(When, timeRotationSchedule, res.t))


\* How often x occurs in the sequence q.
Occurs(q, x) == Cardinality({i \in 1..Len(q) : q[i] = x})

\* p holds the elements of q, each as often as q does.
SameOffsets(p, q) ==
    /\ Len(p) = Len(q)
    /\ \A i \in 1..Len(q) : Occurs(p, q[i]) = Occurs(q, q[i])

Ascending(q) ==
    \A i, j \in 1..Len(q) : i < j => approxDuration(q[i]) <= approxDuration(q[j])

\* C20: after a successful init the schedule set is not empty, holds the
\* parsed offsets of the configuration, each as often as it was given (the
\* unit's default when none was given), and is in ascending order of
\* approximate duration.
C20_ScheduleSet ==
    (inited /\ ~initErr) =>
        /\ Len(timeRotationSchedule) >= 1
        /\ SameOffsets(timeRotationSchedule,
                       IF Len(RotationSchedule) = 0
                       THEN <<baseRotateTime(When)>>
                       ELSE Parsed(When, RotationSchedule))
        /\ Ascending(timeRotationSchedule)

\* init has sorted three offsets given out of order, one of them twice.
C20_Witness ==
    /\ inited
    /\ RotationSchedule = <<Sch(0, 0, 0, 45, 30), Sch(0, 0, 0, 15, 0),
                            Sch(0, 0, 0, 45, 30)>>
    /\ timeRotationSchedule = <<Sch(0, 0, 0, 15, 0), Sch(0, 0, 0, 45, 30),
                                Sch(0, 0, 0, 45, 30)>>


\* C21: when the configuration gives no offsets, the schedule set after
\* init has exactly one element, the default of the unit: the zero offset
\* for Hour and Day, day 1 for Month, month 1 and day 1 for Year.
C21_DefaultSchedule ==
    (inited /\ ~initErr /\ Len(RotationSchedule) = 0) =>
        timeRotationSchedule =
            CASE When \in {Hour, Day} -> <<Sch(0, 0, 0, 0, 0)>>
              [] When = Month         -> <<Sch(0, 1, 0, 0, 0)>>
              [] When = Year          -> <<Sch(1, 1, 0, 0, 0)>>

\* init has run for Year with no offsets given.
C21_Witness ==
    /\ inited
    /\ When = Year
    /\ RotationSchedule = <<>>
    /\ timeRotationSchedule = <<Sch(1, 1, 0, 0, 0)>>


-----------------------------------------------------------------------------
(* The offset parser: properties of SpecParse                               *)

OffsetFields == <<"month", "day", "hour", "minute", "second">>

\* Where the documented formats MM:SS, HHMM:SS, DD HHMM:SS and
\* mmDD HHMM:SS have each field, the blank and the colon (0: not there).
Layout(r) ==
    CASE r = Hour  -> [len |-> 5, month |-> 0, day |-> 0, blank |-> 0, hour |-> 0,
                       minute |-> 1, colon |-> 3, second |-> 4]
      [] r = Day   -> [len |-> 7, month |-> 0, day |-> 0, blank |-> 0, hour |-> 1,
                       minute |-> 3, colon |-> 5, second |-> 6]
      [] r = Month -> [len |-> 10, month |-> 0, day |-> 1, blank |-> 3, hour |-> 4,
                       minute |-> 6, colon |-> 8, second |-> 9]
      [] r = Year  -> [len |-> 12, month |-> 1, day |-> 3, blank |-> 5, hour |-> 6,
                       minute |-> 8, colon |-> 10, second |-> 11]

WellFormedAs(lay, str) ==
    /\ Len(str) = lay.len
    /\ \A i \in 1..Len(str) :
          IF i = lay.blank THEN str[i] = " "
          ELSE IF i = lay.colon THEN str[i] = ":"
          ELSE IsDigit(str[i])

WellFormedOffset(r, str) == WellFormedAs(Layout(r), str)

\* The number a well-formed string has for a field, zero for a field the
\* unit has no group for.
FieldValue(lay, str, f) == IF lay[f] = 0 THEN 0 ELSE Atoi(str, lay[f])

FieldRange(f) ==
    CASE f = "month"  -> 1..12
      [] f = "day"    -> 1..31
      [] f = "hour"   -> 0..23
      [] f = "minute" -> 0..59
      [] f = "second" -> 0..59

\* The fields of a well-formed string that are out of range, by their
\* place in month, day, hour, minute, second order.
BadFields(lay, str) ==
    {k \in 1..5 : /\ lay[OffsetFields[k]] # 0
                  /\ FieldValue(lay, str, OffsetFields[k]) \notin FieldRange(OffsetFields[k])}

InRangeOffset(r, str) == BadFields(Layout(r), str) = {}

FirstBad(bad) == OffsetFields[CHOOSE k \in bad : \A j \in bad : k <= j]

\* C22: for every unit and every well-formed offset string of the unit
\* with every field in range, parsing succeeds, every two-digit group is
\* the field it stands for, the fields the unit has no group for are zero,
\* and the offset written back in the format of the unit is the string.
C22_ParseKeepsFields ==
    (res.asked /\ valid(When) /\ WellFormedOffset(When, res.str)
               /\ InRangeOffset(When, res.str)) =>
        /\ res.out.ok
        /\ \A k \in 1..5 :
              res.out.sch[OffsetFields[k]]
                = FieldValue(Layout(When), res.str, OffsetFields[k])
        /\ formatOffset(When, res.out.sch) = res.str

\* Year "0615 1914:45" parsed: month 6, day 15, hour 19, minute 14,
\* second 45.
C22_Witness ==
    /\ res.asked
    /\ When = Year
    /\ res.str = <<"0", "6", "1", "5", " ", "1", "9", "1", "4", ":", "4", "5">>
    /\ res.out.ok
    /\ res.out.sch = Sch(6, 15, 19, 14, 45)

Year0232 == <<"0", "2", "3", "2", " ", "1", "9", "1", "4", ":", "4", "5">>

Year0231 == <<"0", "2", "3", "1", " ", "1", "9", "1", "4", ":", "4", "5">>

\* What the claim lets parsing answer for a string of a unit.
ParseAnswers(lay, str, out) ==
    IF ~WellFormedAs(lay, str)
    THEN ~out.ok /\ out.err = "format"
    ELSE IF BadFields(lay, str) # {}
    THEN ~out.ok /\ out.err \in {"months", "days", "hours", "minutes", "seconds"}
                 /\ FieldOf(out.err) = FirstBad(BadFields(lay, str))
    ELSE out.ok

\* C23: parsing an offset string of a unit fails exactly when the string
\* has not the fixed-width shape of the unit or a field is out of its range
\* (month 1-12, day 1-31, hour 0-23, minute 0-59, second 0-59); the error
\* names the first field out of range in month, day, hour, minute, second
\* order.  The day is only held against 31: Year "0232 1914:45" fails on
\* its day and "0231 1914:45" is accepted.
C23_ParseFailsExactly ==
    (res.asked /\ valid(When)) =>
        /\ ParseAnswers(Layout(When), res.str, res.out)
        /\ (When = Year /\ res.str = Year0232) => (~res.out.ok /\ res.out.err = "days")
        /\ (When = Year /\ res.str = Year0231) => res.out.ok

\* Year "0232 1914:45" refused for its day.
C23_Witness ==
    /\ res.asked
    /\ When = Year
    /\ res.str = Year0232
    /\ ~res.out.ok
    /\ res.out.err = "days"

\* Year "1332 2460:60" is refused for its month, the first of its five
\* fields out of range.
C23_WitnessFirst ==
    /\ res.asked
    /\ When = Year
    /\ res.str = <<"1", "3", "3", "2", " ", "2", "4", "6", "0", ":", "6", "0">>
    /\ res.out.err = "months"


-----------------------------------------------------------------------------
(* The unit: properties of SpecClock                                        *)

\* The four codes and their spellings in capitals.
Spellings(code) ==
    CASE code = "h" -> {"h", "H"}
      [] code = "d" -> {"d", "D"}
      [] code = "m" -> {"m", "M"}
      [] code = "y" -> {"y", "Y"}

IsCode(r) == \E code \in {"h", "d", "m", "y"} : r \in Spellings(code)

\* init runs on a configured unit.
InitRuns == ~inited /\ inited'

\* C24: init accepts the unit in either case and leaves the lowercase
\* code h, d, m or y in its place; a configured unit that is none of the
\* four in any case is a validation error: init fails and sets no schedule.
C24_UnitCanonical ==
    [][InitRuns =>
          /\ \A code \in {"h", "d", "m", "y"} :
                When \in Spellings(code) =>
                    /\ When' = code
                    /\ initErr' => Len(RotationSchedule) > 0
          /\ (When # "" /\ ~IsCode(When)) =>
                (initErr' /\ timeRotationSchedule' = <<>>)]_vars

\* init has refused the unit "a".
C24_Witness ==
    /\ inited
    /\ When = "a"
    /\ initErr
    /\ timeRotationSchedule = <<>>


-----------------------------------------------------------------------------
(* Opening a file that is not there: properties of Spec                     *)

\* The call opened with the window w and made the active file, in which its
\* payload is alone; nothing was rotated and no backup was written.
OpenedNew(c, w) ==
    /\ ~c.err
    /\ c.open.done
    /\ ~c.open.existed
    /\ c.open.prev = w.prev
    /\ c.open.next = w.next
    /\ c.postPrev = w.prev
    /\ c.postNext = w.next
    /\ c.rots = 0
    /\ c.arch = {}
    /\ c.postActive = <<Payload(c.wid, w.prev)>>

\* C25: a Write on a closed writer whose target file is absent sets the
\* window to what the rotation clock gives for the current time, creates
\* the file and holds it open, and makes no backup.
C25_OpenNew ==
    /\ (hist.op = "Write" /\ ~hist.preOpen /\ ~hist.preExists) =>
           OpenedNew(hist, calcRotationTimes(When, timeRotationSchedule, hist.t))
    /\ (hist.op = "Write" /\ ~hist.preOpen /\ ~hist.preExists /\ pc = "idle") =>
           (file /\ Exists(dir, Filename))

\* A Write has opened a file that was not there.
C25_Witness ==
    /\ hist.op = "Write"
    /\ ~hist.preOpen
    /\ ~hist.preExists
    /\ hist.open.done
    /\ pc = "idle"
    /\ file
    /\ hist.postActive # <<>>


-----------------------------------------------------------------------------
(* A trim whose deletions fail: properties of SpecTrim                      *)

SetOf(q) == {q[i] : i \in 1..Len(q)}

\* The backups a trim has to delete: those it listed but the newest it
\* keeps.
Excess(t) == t.listed \ NewestK(t.listed, t.keep)

\* C26: a deletion that fails does not end the batch: a trim that has ended
\* has tried every excess backup it listed, each once; those whose
\* deletion failed are all in the error it returns and are still in the
\* directory, the others are deleted.
C26_TrimTriesAll ==
    trimHist.done =>
        /\ trimHist.removed \cup SetOf(trimHist.errs) = Excess(trimHist)
        /\ trimHist.removed \cap SetOf(trimHist.errs) = {}
        /\ Len(trimHist.errs) = Cardinality(SetOf(trimHist.errs))
        /\ SetOf(trimHist.errs) \subseteq trimHist.after
        /\ trimHist.removed \cap trimHist.after = {}

\* A trim with two backups to delete: the first deletion failed, the
\* second was made.
C26_Witness ==
    /\ trimHist.done
    /\ Cardinality(Excess(trimHist)) = 2
    /\ Len(trimHist.errs) = 1
    /\ trimHist.removed # {}
    /\ After(Parse(trimHist.errs[1].mid).t,
             Parse((CHOOSE n \in trimHist.removed : TRUE).mid).t)

\* Both deletions of a trim failed, and both are in its error.
C26_WitnessBoth ==
    /\ trimHist.done
    /\ Len(trimHist.errs) = 2
    /\ trimHist.removed = {}

\* The call asked for a trim: it opened a file or rotated.
AskedForTrim(c) == c.open.done \/ c.rots > 0

\* C27: a trim that fails does not fail the call that asked for it.  With
\* a file system that fails nothing but the deletions of trim, no call that
\* has asked for a trim returns an error, whatever the trims have returned
\* (the one error left is that of a Rotate before init, which asks for no
\* trim), and a Write leaves its payload at the end of the active file.
C27_TrimErrorNotReturned ==
    /\ hist.err => (hist.op = "Rotate" /\ ~AskedForTrim(hist))
    /\ hist.op = "Write" =>
          /\ ~hist.err
          /\ AskedForTrim(hist) \/ hist.preOpen
          /\ hist.postActive # <<>>
          /\ hist.postActive[Len(hist.postActive)] = Payload(hist.wid, hist.postPrev)

\* A Write has rotated and returned, and a trim has ended with an error.
C27_Witness ==
    /\ pc = "idle"
    /\ hist.op = "Write"
    /\ hist.rots = 1
    /\ trimHist.done
    /\ trimHist.errs # <<>>
    /\ ~hist.err


-----------------------------------------------------------------------------
(* The worker and its channel: properties of SpecThreads                    *)

\* C28: at every moment at most one trim is running and at most one more
\* request for a trim is queued, however the calls of Write and Rotate
\* and the steps of the worker interleave: init has started one worker at
\* most, which runs one trim at a time, and trimCh holds one request at
\* most.
C28_OneTrimOneQueued ==
    /\ used.v <= 1
    /\ wpc \in {"idle", "trim", "remove"}
    /\ ~inited => (wpc = "idle" /\ trimCh = 0)
    /\ trimCh \in {0, 1}

\* A trim is running, a request is queued, and a caller is at its send.
C28_Witness ==
    /\ wpc \in {"trim", "remove"}
    /\ trimCh = 1
    /\ pc \in {"open_trim", "rotate_trim"}


-----------------------------------------------------------------------------
(* The returns of the rotation clock: properties of SpecClock               *)

\* C29: for every unit, every valid schedule set and every query time the
\* rotation clock returns before its last statement, the fallback of the
\* current time less and plus one interval: the first offset of the set
\* placed in the period after the current one is after the current time.
C29_NoFallback == res.asked => res.via \in {"early", "loop", "wrap"}

\* A query past every offset of its period, answered by the return before
\* the fallback, for a Month or Year schedule.
C29_Witness ==
    /\ res.asked
    /\ When \in {Month, Year}
    /\ res.via = "wrap"
    /\ After(res.next, res.t)

\* C30: the first candidate of the rotation clock, the last offset of the
\* sorted set placed in the current period and moved back by one unit, is
\* never after the current time: no query returns through the first return
\* statement, which leaves previous unset.
C30_SeedNotAfter == res.asked => (res.via # "early" /\ res.prev # ZeroTime)


-----------------------------------------------------------------------------
(* What the files hold: properties of Spec                                  *)

\* Every place of every file of the directory.
Places(d) == UNION {{<<n, i>> : i \in 1..Len(d[n].content)} : n \in DOMAIN d}

IdsIn(d) == {d[p[1]].content[p[2]].id : p \in Places(d)}

\* The Writes that have appended their payload: all that were called but
\* the one in progress.
Appended == used.w - (IF pc # "idle" /\ cur.op = "Write" THEN 1 ELSE 0)

\* Each item is in one place, the payloads are those of the Writes that
\* have appended, and a file holds its items in the order they were
\* written (what was there at the start has the ids below 1).
Conserved(d) ==
    /\ Cardinality(Places(d)) = Cardinality(IdsIn(d))
    /\ {id \in IdsIn(d) : id >= 1} = 1..Appended
    /\ \A n \in DOMAIN d : \A i, j \in 1..Len(d[n].content) :
          i < j => d[n].content[i].id < d[n].content[j].id

\* What was in the files at the start is in them after the step.
OldKept == {id \in IdsIn(dir') : id < 1} = {id \in IdsIn(dir) : id < 1}

\* C31: with a retention count of zero or less and a file system that
\* answers every call, the backups and the active file together hold what
\* the files held at the start and the payload of every Write that has
\* appended, each once and in the order written within a file: no
\* rotation loses, doubles or cuts content.
C31_ContentConserved ==
    /\ [](Backups <= 0 => Conserved(dir))
    /\ [][Backups <= 0 => OldKept]_vars

\* With trimming off and three Writes made, two backups hold payloads and
\* nothing is lost or doubled.
C31_Witness ==
    /\ Backups <= 0
    /\ pc = "idle"
    /\ used.w >= 3
    /\ Cardinality({n \in BackupNames(dir) :
                      \E i \in 1..Len(dir[n].content) : dir[n].content[i].id >= 1}) >= 2
    /\ Conserved(dir)


-----------------------------------------------------------------------------
(* The window a Write leaves: properties of Spec                            *)

\* C32: after every Write that returns without error at time t the stored
\* window holds t as the rotation clock's does: prevRotateAt <= t and
\* t < rotateAt, also when t is a scheduled instant, the file open before
\* the call or opened by it.
C32_WindowHoldsNow ==
    (hist.op = "Write" /\ ~hist.err) =>
        (hist.postPrev <= hist.t /\ hist.t < hist.postNext)


-----------------------------------------------------------------------------
(* The name of a backup: properties of Spec                                 *)

\* C33: whenever a rotation renames the active file or appends it to a
\* backup, the prevRotateAt the backup is named after is an instant the
\* rotation clock has given and never the unset, zero time, whatever the
\* state Rotate() or Write is called in.
C33_BackupNeverZero ==
    \A a \in hist.arch \cup cur.arch :
        /\ a.stored # ZeroTime
        /\ a.name # filenameWithTimestamp(ZeroTime)


-----------------------------------------------------------------------------
(* The order of the schedule set: properties of SpecClock                   *)

\* C34: the order init sorts the offsets in, ascending approxDuration, is
\* the order in time of their occurrences in the period of any instant:
\* walking the sorted set meets the anchors in non-decreasing time order.
C34_SortedIsChronological ==
    (inited /\ ~initErr) =>
        \A i, j \in 1..Len(timeRotationSchedule) :
            i < j => nearestScheduledTime(When, now, timeRotationSchedule[i])
                       <= nearestScheduledTime(When, now, timeRotationSchedule[j])


(***************************************************************************)
(* A Write that comes late: properties of Spec                             *)
(***************************************************************************)

\* The window in force when the Write makes its check: the stored one when
\* the file is open, else the one openExistingOrNew stores first.
InForce(c) ==
    IF c.preOpen THEN [prev |-> c.prePrev, next |-> c.preNext]
                 ELSE [prev |-> c.open.prev, next |-> c.open.next]

\* The Write found the rotateAt in force behind the current time.
CameLate(c) ==
    /\ c.op = "Write"
    /\ ~c.err
    /\ c.preOpen \/ (c.open.done /\ c.open.existed)
    /\ After(c.t, InForce(c).next)

\* C35: a Write that finds one or more scheduled instants passed rotates
\* exactly once and changes at most one backup, the one named after the
\* prevRotateAt in force before it; the periods in between get no backup.
C35_OneRotationAfterMissed ==
    CameLate(hist) =>
        /\ hist.rots = 1
        /\ Cardinality(hist.arch) <= 1
        /\ \A a \in hist.arch :
              /\ a.name = filenameWithTimestamp(InForce(hist).prev)
              /\ a.stored = InForce(hist).prev
        /\ hist.preActive # <<>> => hist.arch # {}

\* A Write on an open file after two or more instants has returned, and has
\* made one backup.
C35_Witness ==
    /\ pc = "idle"
    /\ CameLate(hist)
    /\ hist.preOpen
    /\ hist.postPrev > hist.preNext
    /\ Cardinality(hist.arch) = 1
    /\ hist.rots = 1

(***************************************************************************)
(* The handle of the active file: properties of SpecFaults and SpecInit    *)
(***************************************************************************)

\* The payload of the call is in the active file the call left.
AppendedBy(c) == \E i \in 1..Len(c.postActive) : c.postActive[i].id = c.wid

\* A Write that appended, and a Write that returned nil, left f.file set.
AppendsWithHandle ==
    hist.op = "Write" =>
        /\ AppendedBy(hist) => hist.postOpen
        /\ ~hist.err => (hist.postOpen /\ AppendedBy(hist))

\* The process holds one handle to the active file when f.file is set and
\* none when it is nil.
OneHandle == used.h = (IF file THEN 1 ELSE 0)

\* C36: a Write appends only while a handle is held, a Write that returns
\* nil leaves the file open, and the process never holds more than one
\* handle to the active file.
C36_WriteHoldsHandle == AppendsWithHandle /\ used.h <= 1

(***************************************************************************)
(* Calls return: properties of SpecLive                                    *)
(***************************************************************************)

\* The caller stands at the send of triggerTrim, f.mu held.
AtSend == pc \in {"open_trim", "rotate_trim"}

\* C37: with a worker that is scheduled fairly every call under way
\* returns, and a caller that waits at its send with trimCh full finds room.
C37_CallsReturn ==
    /\ (pc # "idle") ~> (pc = "idle")
    /\ (AtSend /\ full(trimCh)) ~> ~full(trimCh)

\* A caller waits at its send, trimCh full, while the worker is inside trim.
C37_Witness == AtSend /\ full(trimCh) /\ wpc # "idle"

(***************************************************************************)
(* Trim and the newest backup: properties of Spec                          *)
(***************************************************************************)

\* The backups the most recent rotation made or appended to, as far as the
\* call under way and the last call that returned tell.
LastArchived ==
    {a.name : a \in (IF cur.rots >= 1 THEN cur.arch
                     ELSE IF pc = "idle" /\ hist.rots >= 1 THEN hist.arch
                     ELSE {})}

\* C38: with Backups >= 1 no step of the trim worker, however it falls
\* among the steps of Write and Rotate, deletes the backup of the most
\* recent rotation or the active file.
C38_TrimKeepsLatest ==
    [][(Backups >= 1 /\ TrimStep) =>
          \A n \in (LastArchived \cup {Filename}) \cap DOMAIN dir : n \in DOMAIN dir']_vars

(***************************************************************************)
(* The occurrence in the current period: properties of SpecClock           *)
(***************************************************************************)

\* The fields of offset sch put in place of those of c that the unit lets
\* the offset set; the fields of the period stay those of c.
Substituted(r, c, sch) ==
    CASE r = Hour  -> [c EXCEPT !.minute = sch.minute, !.second = sch.second]
      [] r = Day   -> [c EXCEPT !.hour = sch.hour, !.minute = sch.minute,
                                !.second = sch.second]
      [] r = Month -> [c EXCEPT !.day = sch.day, !.hour = sch.hour,
                                !.minute = sch.minute, !.second = sch.second]
      [] r = Year  -> [c EXCEPT !.month = sch.month, !.day = sch.day,
                                !.hour = sch.hour, !.minute = sch.minute,
                                !.second = sch.second]

\* C39: the nearest occurrence of an offset of the schedule is the instant
\* of the current period of the reference time (its hour, day, month or
\* year) that has the offset's fields, before the reference time or after.
C39_NearestInPeriod ==
    (inited /\ ~initErr) =>
        \A i \in 1..Len(timeRotationSchedule) :
            Civil(nearestScheduledTime(When, now, timeRotationSchedule[i]))
                = Substituted(When, Civil(now), timeRotationSchedule[i])
=============================================================================
